---- MODULE Spec2Model ----
(***************************************************************************)
(* Toy language tool chain: bytecode compiler, stack virtual machine and   *)
(* REPL.  Source programs enter as syntax trees (the lexer and parser are  *)
(* outside the model), are compiled to byte sequences by Compile, and are  *)
(* executed one instruction per step by the virtual machine.               *)
(***************************************************************************)
EXTENDS Integers, Sequences, FiniteSets, TLC

(***************************************************************************)
(* package code: opcodes, operand widths, Make and the operand readers.    *)
(***************************************************************************)
OpConstant == 0
OpPop == 1
OpAdd == 2
OpSub == 3
OpMul == 4
OpDiv == 5
OpTrue == 6
OpFalse == 7
OpNull == 8
OpEqual == 9
OpNotEqual == 10
OpGreaterThan == 11
OpMinus == 12
OpBang == 13
OpJumpNotTruthy == 14
OpJump == 15
OpGetGlobal == 16
OpSetGlobal == 17
OpArray == 18
OpHash == 19
OpIndex == 20
OpCall == 21
OpReturnValue == 22
OpReturn == 23
OpGetLocal == 24
OpSetLocal == 25
OpGetBuiltin == 26
OpClosure == 27
OpGetFree == 28
OpCurrentClosure == 29

\* definitions: the operand widths of every defined opcode
definitions ==
  [op \in OpConstant..OpCurrentClosure |->
     CASE op \in {OpConstant, OpJumpNotTruthy, OpJump, OpGetGlobal,
                  OpSetGlobal, OpArray, OpHash} -> <<2>>
       [] op \in {OpCall, OpGetLocal, OpSetLocal, OpGetBuiltin, OpGetFree} -> <<1>>
       [] op = OpClosure -> <<2, 1>>
       [] OTHER -> <<>>]

\* Lookup: ok is FALSE for a byte that is no defined opcode
Lookup(op) ==
  IF op \in DOMAIN definitions
    THEN [ok |-> TRUE, OperandWidths |-> definitions[op]]
    ELSE [ok |-> FALSE, OperandWidths |-> <<>>]

RECURSIVE SumSeq(_)
SumSeq(s) == IF s = <<>> THEN 0 ELSE Head(s) + SumSeq(Tail(s))

\* the bytes one operand occupies: big-endian uint16 or one truncated byte
OperandBytes(width, operand) ==
  CASE width = 2 -> <<(operand % 65536) \div 256, operand % 256>>
    [] width = 1 -> <<operand % 256>>
    [] OTHER -> <<>>

RECURSIVE MakeOperands(_, _, _)
MakeOperands(widths, operands, i) ==
  IF i > Len(widths) THEN <<>>
  ELSE (IF i <= Len(operands)
          THEN OperandBytes(widths[i], operands[i])
          ELSE [j \in 1..widths[i] |-> 0])
       \o MakeOperands(widths, operands, i + 1)

\* Make: the opcode byte followed by the operands that were supplied;
\* operand bytes that were not supplied stay zero
Make(op, operands) ==
  IF ~Lookup(op).ok THEN <<>>
  ELSE <<op>> \o MakeOperands(definitions[op], operands, 1)

\* a ReadUint16 that takes the low byte first
ReadUint16LittleEndian(ins, pos) == ins[pos + 1] + ins[pos + 2] * 256

\* ReadUint16 / ReadUint8 of the bytes that start at 0-based offset pos
ReadUint16(ins, pos) == ins[pos + 1] * 256 + ins[pos + 2]

ReadUint8(ins, pos) == ins[pos + 1]

RECURSIVE ReadOperandsFrom(_, _, _, _)
ReadOperandsFrom(widths, ins, i, offset) ==
  IF i > Len(widths) THEN [operands |-> <<>>, offset |-> offset]
  ELSE LET v == IF widths[i] = 2 THEN ReadUint16(ins, offset)
                ELSE ReadUint8(ins, offset)
           rest == ReadOperandsFrom(widths, ins, i + 1, offset + widths[i])
       IN [operands |-> <<v>> \o rest.operands, offset |-> rest.offset]

\* ReadOperands: the decoded operands and the number of bytes they occupy
ReadOperands(widths, ins) == ReadOperandsFrom(widths, ins, 1, 0)

(***************************************************************************)
(* package object.  Every object is a record of the same shape; id is the  *)
(* address of the allocation, which is what == on two objects compares.    *)
(***************************************************************************)
INTEGER_OBJ == "INTEGER"
BOOLEAN_OBJ == "BOOLEAN"
STRING_OBJ == "STRING"
NULL_OBJ == "NULL"
ARRAY_OBJ == "ARRAY"
HASH_OBJ == "HASH"
COMPILED_FUNCTION_OBJ == "COMPILED_FUNCTION"
ERROR_OBJ == "ERROR"

Obj(type, value, str, elements, pairs, ins, numLocals, numParameters, id) ==
  [type |-> type, Value |-> value, Str |-> str, Elements |-> elements,
   Pairs |-> pairs, Instructions |-> ins, NumLocals |-> numLocals,
   NumParameters |-> numParameters, Message |-> <<>>, id |-> id]

\* the nil interface value: an unset stack slot, global or element
Nil == Obj("nil", 0, "", <<>>, <<>>, <<>>, 0, 0, 0)

\* the three singletons of the virtual machine
True == Obj(BOOLEAN_OBJ, 1, "", <<>>, <<>>, <<>>, 0, 0, 1)
False == Obj(BOOLEAN_OBJ, 0, "", <<>>, <<>>, <<>>, 0, 0, 2)
Null == Obj(NULL_OBJ, 0, "", <<>>, <<>>, <<>>, 0, 0, 3)

\* the first address handed out to an allocation after the singletons
FirstId == Null.id + 1

\* a map without entries
EmptyMap == [n \in {} |-> n]

Integer(v, id) == Obj(INTEGER_OBJ, v, "", <<>>, <<>>, <<>>, 0, 0, id)
String(s, id) == Obj(STRING_OBJ, 0, s, <<>>, <<>>, <<>>, 0, 0, id)
Array(elements, id) == Obj(ARRAY_OBJ, 0, "", elements, <<>>, <<>>, 0, 0, id)
Hash(pairs, id) == Obj(HASH_OBJ, 0, "", <<>>, pairs, <<>>, 0, 0, id)
CompiledFunction(ins, numLocals, numParameters, id) ==
  Obj(COMPILED_FUNCTION_OBJ, 0, "", <<>>, <<>>, ins, numLocals, numParameters, id)

\* HashKey of Boolean, Integer and String; the 64-bit FNV-1a sum of a string
\* is represented by the string itself
HashKey(o) == [Type |-> o.type, Value |-> o.Value, Str |-> o.Str]

Hashable(o) == o.type \in {BOOLEAN_OBJ, INTEGER_OBJ, STRING_OBJ}

(***************************************************************************)
(* package ast: the nodes the parser hands to the compiler.                *)
(***************************************************************************)
IntegerLiteral(v) == [k |-> "IntegerLiteral", Value |-> v]
Boolean(b) == [k |-> "Boolean", Value |-> b]
StringLiteral(s) == [k |-> "StringLiteral", Value |-> s]
Identifier(name) == [k |-> "Identifier", Value |-> name]
PrefixExpression(op, right) ==
  [k |-> "PrefixExpression", Operator |-> op, Right |-> right]
InfixExpression(left, op, right) ==
  [k |-> "InfixExpression", Left |-> left, Operator |-> op, Right |-> right]
BlockStatement(stmts) == [k |-> "BlockStatement", Statements |-> stmts]
NoNode == [k |-> "nil"]
IfExpression(cond, cons, alt) ==
  [k |-> "IfExpression", Condition |-> cond, Consequence |-> cons,
   Alternative |-> alt]
FunctionLiteral(params, body, name) ==
  [k |-> "FunctionLiteral", Parameters |-> params, Body |-> body, Name |-> name]
CallExpression(fn, args) ==
  [k |-> "CallExpression", Function |-> fn, Arguments |-> args]
ArrayLiteral(elements) == [k |-> "ArrayLiteral", Elements |-> elements]
HashLiteral(pairs) == [k |-> "HashLiteral", Pairs |-> pairs]
IndexExpression(left, index) ==
  [k |-> "IndexExpression", Left |-> left, Index |-> index]
LetStatement(name, value) == [k |-> "LetStatement", Name |-> name, Value |-> value]
ReturnStatement(value) == [k |-> "ReturnStatement", ReturnValue |-> value]
ExpressionStatement(e) == [k |-> "ExpressionStatement", Expression |-> e]
Program(stmts) == [k |-> "Program", Statements |-> stmts]

(***************************************************************************)
(* package compiler: the symbol table.  A chain of tables is a sequence,   *)
(* the global table first and the table of the innermost scope last.       *)
(***************************************************************************)
GlobalScope == "GLOBAL"
BuiltinScope == "BUILTIN"
LocalScope == "LOCAL"
FreeScope == "FREE"
FunctionScope == "FUNCTION"

Symbol(name, scope, index) == [Name |-> name, Scope |-> scope, Index |-> index]

NewSymbolTable == [store |-> EmptyMap, numDefinitions |-> 0, FreeSymbols |-> <<>>]

NewEnclosedSymbolTable(outer) == Append(outer, NewSymbolTable)

\* s.store[name] = symbol
StoreSymbol(table, symbol) ==
  [table EXCEPT !.store = (symbol.Name :> symbol) @@ table.store]

\* Define on the innermost table of the chain
Define(tabs, name) ==
  LET n == Len(tabs)
      symbol == Symbol(name, IF n = 1 THEN GlobalScope ELSE LocalScope,
                       tabs[n].numDefinitions)
      t1 == StoreSymbol(tabs[n], symbol)
  IN [tabs |-> [tabs EXCEPT ![n] = [t1 EXCEPT !.numDefinitions = @ + 1]],
      symbol |-> symbol]

DefineBuiltin(tabs, index, name) ==
  LET symbol == Symbol(name, BuiltinScope, index)
  IN [tabs |-> [tabs EXCEPT ![Len(tabs)] = StoreSymbol(@, symbol)],
      symbol |-> symbol]

\* (the free symbol indexed by the length of the list after the append)
defineFreeIndexedByLength(tabs, level, original) ==
  LET frees == Append(tabs[level].FreeSymbols, original)
      symbol == Symbol(original.Name, FreeScope, Len(frees))
  IN [tabs |-> [tabs EXCEPT ![level] =
                  StoreSymbol([@ EXCEPT !.FreeSymbols = frees], symbol)],
      symbol |-> symbol]

\* defineFree on table number level of the chain
defineFree(tabs, level, original) ==
  LET frees == Append(tabs[level].FreeSymbols, original)
      symbol == Symbol(original.Name, FreeScope, Len(frees) - 1)
  IN [tabs |-> [tabs EXCEPT ![level] =
                  StoreSymbol([@ EXCEPT !.FreeSymbols = frees], symbol)],
      symbol |-> symbol]

\* (every symbol found in an outer table is made a free symbol)
RECURSIVE ResolveAtCapturingAll(_, _, _)
ResolveAtCapturingAll(tabs, level, name) ==
  IF name \in DOMAIN tabs[level].store
    THEN [tabs |-> tabs, symbol |-> tabs[level].store[name], ok |-> TRUE]
  ELSE IF level = 1
    THEN [tabs |-> tabs, symbol |-> Symbol("", "", 0), ok |-> FALSE]
  ELSE LET r == ResolveAtCapturingAll(tabs, level - 1, name)
       IN IF ~r.ok THEN r
          ELSE LET f == defineFree(r.tabs, level, r.symbol)
               IN [tabs |-> f.tabs, symbol |-> f.symbol, ok |-> TRUE]

\* Resolve, started on table number level; it turns a local of an enclosing
\* function into a free symbol of every table on the way
RECURSIVE ResolveAt(_, _, _)
ResolveAt(tabs, level, name) ==
  IF name \in DOMAIN tabs[level].store
    THEN [tabs |-> tabs, symbol |-> tabs[level].store[name], ok |-> TRUE]
  ELSE IF level = 1
    THEN [tabs |-> tabs, symbol |-> Symbol("", "", 0), ok |-> FALSE]
  ELSE LET r == ResolveAt(tabs, level - 1, name)
       IN IF ~r.ok THEN r
          ELSE IF r.symbol.Scope \in {GlobalScope, BuiltinScope} THEN r
          ELSE LET f == defineFree(r.tabs, level, r.symbol)
               IN [tabs |-> f.tabs, symbol |-> f.symbol, ok |-> TRUE]

Resolve(tabs, name) == ResolveAt(tabs, Len(tabs), name)

DefineFunctionName(tabs, name) ==
  LET symbol == Symbol(name, FunctionScope, 0)
  IN [tabs |-> [tabs EXCEPT ![Len(tabs)] = StoreSymbol(@, symbol)],
      symbol |-> symbol]

(***************************************************************************)
(* ast String(): the text sort.Slice compares for the keys of a hash       *)
(* literal, as a sequence of byte values.                                  *)
(***************************************************************************)
\* the bytes of the words that occur in the programs of this model
Bytes(s) ==
  CASE s = "one" -> <<111, 110, 101>>
    [] s = "two" -> <<116, 119, 111>>
    [] s = "a" -> <<97>>
    [] s = "b" -> <<98>>
    [] s = "true" -> <<116, 114, 117, 101>>
    [] s = "false" -> <<102, 97, 108, 115, 101>>
    [] s = "-" -> <<45>>
    [] s = "!" -> <<33>>
    [] s = "+" -> <<43>>
    [] s = "*" -> <<42>>
    [] s = "" -> <<>>

RECURSIVE Digits(_)
Digits(n) == IF n < 10 THEN <<48 + n>> ELSE Digits(n \div 10) \o <<48 + (n % 10)>>

RECURSIVE NodeString(_)
NodeString(node) ==
  CASE node.k = "IntegerLiteral" -> Digits(node.Value)
    [] node.k = "Boolean" -> Bytes(IF node.Value THEN "true" ELSE "false")
    [] node.k \in {"StringLiteral", "Identifier"} -> Bytes(node.Value)
    [] node.k = "PrefixExpression" ->
         <<40>> \o Bytes(node.Operator) \o NodeString(node.Right) \o <<41>>
    [] node.k = "InfixExpression" ->
         <<40>> \o NodeString(node.Left) \o <<32>> \o Bytes(node.Operator)
                \o <<32>> \o NodeString(node.Right) \o <<41>>

\* Go's < on strings: bytewise lexicographic order
RECURSIVE StrLess(_, _)
StrLess(a, b) ==
  IF b = <<>> THEN FALSE
  ELSE IF a = <<>> THEN TRUE
  ELSE IF Head(a) # Head(b) THEN Head(a) < Head(b)
  ELSE StrLess(Tail(a), Tail(b))

\* sort.Slice of the keys by String(); pairs whose keys print differently
\* have one sorted order whatever order the map hands them out in
RECURSIVE InsertPair(_, _)
InsertPair(sorted, pair) ==
  IF sorted = <<>> THEN <<pair>>
  ELSE IF StrLess(NodeString(pair[1]), NodeString(Head(sorted)[1]))
    THEN <<pair>> \o sorted
  ELSE <<Head(sorted)>> \o InsertPair(Tail(sorted), pair)

RECURSIVE SortPairs(_)
SortPairs(pairs) ==
  IF pairs = <<>> THEN <<>>
  ELSE InsertPair(SortPairs(SubSeq(pairs, 1, Len(pairs) - 1)), pairs[Len(pairs)])

(***************************************************************************)
(* package object: the builtin functions.  Each takes the arguments of the *)
(* call and the address its allocation gets, and returns an object, Nil    *)
(* where the Go function returns nil.                                      *)
(***************************************************************************)
\* Message is the format and the values Sprintf puts into it; the formats
\* are written here without the backquotes around the name of the builtin
Error(message, id) ==
  [Obj(ERROR_OBJ, 0, "", <<>>, <<>>, <<>>, 0, 0, id) EXCEPT !.Message = message]

newError(format, a, id) == Error(<<format>> \o a, id)

WrongNumberOfArguments(expected, actual, id) ==
  newError("wrong number of arguments, expected %d, actual %d", <<expected, actual>>, id)

BuiltinLen(args, id) ==
  IF Len(args) # 1 THEN WrongNumberOfArguments(1, Len(args), id)
  ELSE CASE args[1].type = ARRAY_OBJ -> Integer(Len(args[1].Elements), id)
         [] args[1].type = STRING_OBJ -> Integer(Len(Bytes(args[1].Str)), id)
         [] OTHER -> newError("argument type to len not supported, actual %s",
                              <<args[1].type>>, id)

\* puts prints its arguments and returns nil
BuiltinPuts(args, id) == Nil

BuiltinFirst(args, id) ==
  IF Len(args) # 1 THEN WrongNumberOfArguments(1, Len(args), id)
  ELSE IF args[1].type # ARRAY_OBJ
    THEN newError("argument type to first must be ARRAY, actual %s",
                  <<args[1].type>>, id)
  ELSE IF Len(args[1].Elements) > 0 THEN args[1].Elements[1]
  ELSE Nil

BuiltinLast(args, id) ==
  IF Len(args) # 1 THEN WrongNumberOfArguments(1, Len(args), id)
  ELSE IF args[1].type # ARRAY_OBJ
    THEN newError("argument type to last must be ARRAY, actual %s",
                  <<args[1].type>>, id)
  ELSE IF Len(args[1].Elements) > 0 THEN args[1].Elements[Len(args[1].Elements)]
  ELSE Nil

BuiltinRest(args, id) ==
  IF Len(args) # 1 THEN WrongNumberOfArguments(1, Len(args), id)
  ELSE IF args[1].type # ARRAY_OBJ
    THEN newError("argument type to rest must be ARRAY, actual %s",
                  <<args[1].type>>, id)
  ELSE IF Len(args[1].Elements) > 0 THEN Array(Tail(args[1].Elements), id)
  ELSE Nil

\* a push that appends to the array it is given and returns it
BuiltinPushInPlace(args, id) ==
  IF Len(args) # 2 THEN WrongNumberOfArguments(2, Len(args), id)
  ELSE IF args[1].type # ARRAY_OBJ
    THEN newError("argument type to push must be ARRAY, actual %s",
                  <<args[1].type>>, id)
  ELSE Array(Append(args[1].Elements, args[2]), args[1].id)

BuiltinPush(args, id) ==
  IF Len(args) # 2 THEN WrongNumberOfArguments(2, Len(args), id)
  ELSE IF args[1].type # ARRAY_OBJ
    THEN newError("argument type to push must be ARRAY, actual %s",
                  <<args[1].type>>, id)
  ELSE Array(Append(args[1].Elements, args[2]), id)

\* the names of the Builtins table, in its order
Builtins == <<"len", "puts", "first", "last", "rest", "push">>

\* GetBuiltinByName(name).Fn(args...)
BuiltinFn(name, args, id) ==
  CASE name = "len" -> BuiltinLen(args, id)
    [] name = "puts" -> BuiltinPuts(args, id)
    [] name = "first" -> BuiltinFirst(args, id)
    [] name = "last" -> BuiltinLast(args, id)
    [] name = "rest" -> BuiltinRest(args, id)
    [] name = "push" -> BuiltinPush(args, id)

(***************************************************************************)
(* package compiler: the compiler state and its emit helpers.              *)
(***************************************************************************)
NoErr == <<>>

EmittedInstruction(op, pos) == [Opcode |-> op, Position |-> pos]

CompilationScope ==
  [instructions |-> <<>>, lastInstruction |-> EmittedInstruction(0, 0),
   previousInstruction |-> EmittedInstruction(0, 0)]

\* compiler.New; nextId is the address the next allocation gets
CompilerNew(nextId) ==
  [constants |-> <<>>, symbolTable |-> <<NewSymbolTable>>,
   scopes |-> <<CompilationScope>>, scopeIndex |-> 0,
   err |-> NoErr, nextId |-> nextId]

NewWithState(symbolTable, constants, nextId) ==
  [CompilerNew(nextId) EXCEPT !.symbolTable = <<symbolTable>>,
                              !.constants = constants]

currentInstructions(c) == c.scopes[c.scopeIndex + 1].instructions

Bytecode(c) == [Instructions |-> currentInstructions(c), Constants |-> c.constants]

\* addConstant returns the index Len(c.constants) of the appended object
addConstant(c, obj) == [c EXCEPT !.constants = Append(@, obj)]

addInstruction(c, ins) ==
  [c EXCEPT !.scopes[c.scopeIndex + 1].instructions = @ \o ins]

setLastInstruction(c, op, pos) ==
  [c EXCEPT !.scopes[c.scopeIndex + 1].previousInstruction =
                c.scopes[c.scopeIndex + 1].lastInstruction,
            !.scopes[c.scopeIndex + 1].lastInstruction =
                EmittedInstruction(op, pos)]

\* emit returns the position Len(currentInstructions(c)) of the instruction
emit(c, op, operands) ==
  setLastInstruction(addInstruction(c, Make(op, operands)), op,
                     Len(currentInstructions(c)))

lastInstructionIs(c, op) ==
  IF Len(currentInstructions(c)) = 0 THEN FALSE
  ELSE c.scopes[c.scopeIndex + 1].lastInstruction.Opcode = op

lastInstructionIsPop(c) == lastInstructionIs(c, OpPop)

removeLastPop(c) ==
  LET scope == c.scopes[c.scopeIndex + 1]
  IN [c EXCEPT !.scopes[c.scopeIndex + 1] =
        [scope EXCEPT !.instructions =
                        SubSeq(scope.instructions, 1, scope.lastInstruction.Position),
                      !.lastInstruction = scope.previousInstruction]]

replaceInstruction(c, pos, newInstruction) ==
  [c EXCEPT !.scopes[c.scopeIndex + 1].instructions =
     [i \in 1..Len(@) |->
        IF i - 1 >= pos /\ i - 1 < pos + Len(newInstruction)
          THEN newInstruction[i - pos] ELSE @[i]]]

changeOperandPastTarget(c, opPos, operand) ==
  replaceInstruction(c, opPos,
                     Make(currentInstructions(c)[opPos + 1], <<operand + 1>>))

changeOperand(c, opPos, operand) ==
  replaceInstruction(c, opPos,
                     Make(currentInstructions(c)[opPos + 1], <<operand>>))

\* (the instruction replaced, the record of the last instruction left as it
\* was)
replaceLastPopKeepingRecord(c) ==
  replaceInstruction(c, c.scopes[c.scopeIndex + 1].lastInstruction.Position,
                     Make(OpReturnValue, <<>>))

replaceLastPopWithReturn(c) ==
  LET lastPos == c.scopes[c.scopeIndex + 1].lastInstruction.Position
      c1 == replaceInstruction(c, lastPos, Make(OpReturnValue, <<>>))
  IN [c1 EXCEPT !.scopes[c.scopeIndex + 1].lastInstruction.Opcode = OpReturnValue]

enterScope(c) ==
  [c EXCEPT !.scopes = Append(@, CompilationScope),
            !.scopeIndex = @ + 1,
            !.symbolTable = NewEnclosedSymbolTable(@)]

\* leaveScope without c.symbolTable = c.symbolTable.Outer
leaveScopeKeepingTable(c) ==
  [c EXCEPT !.scopes = SubSeq(@, 1, Len(@) - 1),
            !.scopeIndex = @ - 1]

\* leaveScope returns the instructions of the scope it leaves, which are
\* currentInstructions of the compiler before the call
leaveScope(c) ==
  [c EXCEPT !.scopes = SubSeq(@, 1, Len(@) - 1),
            !.scopeIndex = @ - 1,
            !.symbolTable = SubSeq(@, 1, Len(@) - 1)]

(***************************************************************************)
(* Compile: one definition per case of the type switch.  A compiler whose  *)
(* err is not NoErr is the state Compile returned the error in.            *)
(***************************************************************************)
RECURSIVE Compile(_, _)
RECURSIVE CompileStatements(_, _, _)
RECURSIVE CompileStatementsToTheEnd(_, _, _)
RECURSIVE CompileElements(_, _, _)
RECURSIVE CompilePairs(_, _, _)

Failed(c) == c.err # NoErr

\* (statements compiled to the end, the first error kept)
CompileStatementsToTheEnd(c, stmts, i) ==
  IF i > Len(stmts) THEN c
  ELSE LET c1 == Compile(c, stmts[i])
           c2 == CompileStatementsToTheEnd([c1 EXCEPT !.err = NoErr], stmts, i + 1)
       IN IF Failed(c1) THEN [c2 EXCEPT !.err = c1.err] ELSE c2

\* case *ast.Program and case *ast.BlockStatement: the statements in order
CompileStatements(c, stmts, i) ==
  IF i > Len(stmts) THEN c
  ELSE LET c1 == Compile(c, stmts[i])
       IN IF Failed(c1) THEN c1 ELSE CompileStatements(c1, stmts, i + 1)

CompileExpressionStatement(c, node) ==
  LET c1 == Compile(c, node.Expression)
  IN IF Failed(c1) THEN c1 ELSE emit(c1, OpPop, <<>>)

CompileIfExpression(c, node) ==
  LET c1 == Compile(c, node.Condition)
  IN IF Failed(c1) THEN c1 ELSE
  LET jumpNotTruthyPos == Len(currentInstructions(c1))
      c2 == emit(c1, OpJumpNotTruthy, <<0>>)
      c3 == Compile(c2, node.Consequence)
  IN IF Failed(c3) THEN c3 ELSE
  LET c4 == IF lastInstructionIsPop(c3) THEN removeLastPop(c3) ELSE c3
      jumpPos == Len(currentInstructions(c4))
      c5 == emit(c4, OpJump, <<0>>)
      alternativePos == Len(currentInstructions(c5))
      c6 == IF node.Alternative.k = "nil" THEN emit(c5, OpNull, <<>>)
            ELSE Compile(c5, node.Alternative)
  IN IF Failed(c6) THEN c6 ELSE
  LET c7 == IF node.Alternative.k # "nil" /\ lastInstructionIsPop(c6)
              THEN removeLastPop(c6) ELSE c6
      afterAlternativePos == Len(currentInstructions(c7))
  IN changeOperand(changeOperand(c7, jumpNotTruthyPos, alternativePos),
                   jumpPos, afterAlternativePos)

\* the parameters and the name of the literal are not looked at
CompileFunctionLiteral(c, node) ==
  LET c1 == Compile(enterScope(c), node.Body)
  IN IF Failed(c1) THEN c1 ELSE
  LET c2 == IF lastInstructionIsPop(c1) THEN replaceLastPopWithReturn(c1) ELSE c1
      c3 == IF ~lastInstructionIs(c2, OpReturnValue)
              THEN emit(c2, OpReturn, <<>>) ELSE c2
      numLocals == c3.symbolTable[Len(c3.symbolTable)].numDefinitions
      instructions == currentInstructions(c3)
      c4 == leaveScope(c3)
      compiledFn == CompiledFunction(instructions, numLocals, 0, c4.nextId)
      c5 == [c4 EXCEPT !.nextId = @ + 1]
  IN emit(addConstant(c5, compiledFn), OpConstant, <<Len(c5.constants)>>)

CompileReturnStatement(c, node) ==
  LET c1 == Compile(c, node.ReturnValue)
  IN IF Failed(c1) THEN c1 ELSE emit(c1, OpReturnValue, <<>>)

\* the arguments are not compiled and OpCall is emitted without an operand
CompileCallExpression(c, node) ==
  LET c1 == Compile(c, node.Function)
  IN IF Failed(c1) THEN c1 ELSE emit(c1, OpCall, <<>>)

\* the value is compiled before the name is defined
CompileLetStatement(c, node) ==
  LET c1 == Compile(c, node.Value)
  IN IF Failed(c1) THEN c1 ELSE
  LET d == Define(c1.symbolTable, node.Name)
      c2 == [c1 EXCEPT !.symbolTable = d.tabs]
  IN IF d.symbol.Scope = GlobalScope
       THEN emit(c2, OpSetGlobal, <<d.symbol.Index>>)
       ELSE emit(c2, OpSetLocal, <<d.symbol.Index>>)

InfixOpcode(operator) ==
  CASE operator = "+" -> OpAdd
    [] operator = "-" -> OpSub
    [] operator = "*" -> OpMul
    [] operator = "/" -> OpDiv
    [] operator = "==" -> OpEqual
    [] operator = "!=" -> OpNotEqual
    [] operator = ">" -> OpGreaterThan

\* (a < compiled as > without exchanging the operands)
CompileInfixUnswapped(c, node) ==
  LET operator == IF node.Operator = "<" THEN ">" ELSE node.Operator
      c1 == Compile(c, node.Left)
  IN IF Failed(c1) THEN c1 ELSE
  LET c2 == Compile(c1, node.Right)
  IN IF Failed(c2) THEN c2
     ELSE IF operator \in {"+", "-", "*", "/", "==", "!=", ">"}
       THEN emit(c2, InfixOpcode(operator), <<>>)
     ELSE [c2 EXCEPT !.err = <<"unknown operator %s", operator>>]

CompileInfixExpression(c, node) ==
  LET swap == node.Operator = "<"
      left == IF swap THEN node.Right ELSE node.Left
      right == IF swap THEN node.Left ELSE node.Right
      operator == IF swap THEN ">" ELSE node.Operator
      c1 == Compile(c, left)
  IN IF Failed(c1) THEN c1 ELSE
  LET c2 == Compile(c1, right)
  IN IF Failed(c2) THEN c2
     ELSE IF operator \in {"+", "-", "*", "/", "==", "!=", ">"}
       THEN emit(c2, InfixOpcode(operator), <<>>)
     ELSE [c2 EXCEPT !.err = <<"unknown operator %s", operator>>]

CompilePrefixExpression(c, node) ==
  LET c1 == Compile(c, node.Right)
  IN IF Failed(c1) THEN c1
     ELSE IF node.Operator = "-" THEN emit(c1, OpMinus, <<>>)
     ELSE IF node.Operator = "!" THEN emit(c1, OpBang, <<>>)
     ELSE [c1 EXCEPT !.err = <<"unknown operator %s", node.Operator>>]

CompileElements(c, elements, i) ==
  IF i > Len(elements) THEN c
  ELSE LET c1 == Compile(c, elements[i])
       IN IF Failed(c1) THEN c1 ELSE CompileElements(c1, elements, i + 1)

CompileArrayLiteral(c, node) ==
  LET c1 == CompileElements(c, node.Elements, 1)
  IN IF Failed(c1) THEN c1 ELSE emit(c1, OpArray, <<Len(node.Elements)>>)

CompilePairs(c, keys, i) ==
  IF i > Len(keys) THEN c
  ELSE LET c1 == Compile(c, keys[i][1])
       IN IF Failed(c1) THEN c1 ELSE
          LET c2 == Compile(c1, keys[i][2])
          IN IF Failed(c2) THEN c2 ELSE CompilePairs(c2, keys, i + 1)

CompileHashLiteral(c, node) ==
  LET c1 == CompilePairs(c, SortPairs(node.Pairs), 1)
  IN IF Failed(c1) THEN c1 ELSE emit(c1, OpHash, <<Len(node.Pairs) * 2>>)

CompileIndexExpression(c, node) ==
  LET c1 == Compile(c, node.Left)
  IN IF Failed(c1) THEN c1 ELSE
  LET c2 == Compile(c1, node.Index)
  IN IF Failed(c2) THEN c2 ELSE emit(c2, OpIndex, <<>>)

\* every scope but the global one is read with OpGetLocal
CompileIdentifier(c, node) ==
  LET r == Resolve(c.symbolTable, node.Value)
      c1 == [c EXCEPT !.symbolTable = r.tabs]
  IN IF ~r.ok THEN [c1 EXCEPT !.err = <<"undefined variable %s", node.Value>>]
     ELSE IF r.symbol.Scope = GlobalScope
       THEN emit(c1, OpGetGlobal, <<r.symbol.Index>>)
     ELSE emit(c1, OpGetLocal, <<r.symbol.Index>>)

CompileIntegerLiteral(c, node) ==
  LET integer == Integer(node.Value, c.nextId)
      c1 == [c EXCEPT !.nextId = @ + 1]
  IN emit(addConstant(c1, integer), OpConstant, <<Len(c1.constants)>>)

CompileBoolean(c, node) ==
  IF node.Value THEN emit(c, OpTrue, <<>>) ELSE emit(c, OpFalse, <<>>)

CompileStringLiteral(c, node) ==
  LET str == String(node.Value, c.nextId)
      c1 == [c EXCEPT !.nextId = @ + 1]
  IN emit(addConstant(c1, str), OpConstant, <<Len(c1.constants)>>)

Compile(c, node) ==
  CASE node.k \in {"Program", "BlockStatement"} ->
         CompileStatements(c, node.Statements, 1)
    [] node.k = "ExpressionStatement" -> CompileExpressionStatement(c, node)
    [] node.k = "IfExpression" -> CompileIfExpression(c, node)
    [] node.k = "FunctionLiteral" -> CompileFunctionLiteral(c, node)
    [] node.k = "ReturnStatement" -> CompileReturnStatement(c, node)
    [] node.k = "CallExpression" -> CompileCallExpression(c, node)
    [] node.k = "LetStatement" -> CompileLetStatement(c, node)
    [] node.k = "InfixExpression" -> CompileInfixExpression(c, node)
    [] node.k = "PrefixExpression" -> CompilePrefixExpression(c, node)
    [] node.k = "ArrayLiteral" -> CompileArrayLiteral(c, node)
    [] node.k = "HashLiteral" -> CompileHashLiteral(c, node)
    [] node.k = "IndexExpression" -> CompileIndexExpression(c, node)
    [] node.k = "Identifier" -> CompileIdentifier(c, node)
    [] node.k = "IntegerLiteral" -> CompileIntegerLiteral(c, node)
    [] node.k = "Boolean" -> CompileBoolean(c, node)
    [] node.k = "StringLiteral" -> CompileStringLiteral(c, node)

(***************************************************************************)
(* package vm.  The machine is a record.  stack, globals and frames hold    *)
(* the slots written so far, every other slot being nil.  A stack slot and *)
(* the fn of a frame are pointers: they hold the address (id) of an        *)
(* object, and heap is the memory those addresses point into.              *)
(***************************************************************************)
StackSize == 2048
GlobalsSize == 65536
MaxFrames == 1024

IndexOutOfRange == "index out of range"
NilDereference == "nil pointer dereference"
DivideByZero == "integer divide by zero"

\* arr[i] of a Go array or slice, i counted from 0
\* (an array is the function from the slots written so far, counted from 1,
\* to what they hold; a slot never written holds nil)
SlotGet(arr, i) == IF i + 1 \in DOMAIN arr THEN arr[i + 1] ELSE Nil

\* arr[i] = o
SlotSet(arr, i, o) ==
  [j \in DOMAIN arr \cup {i + 1} |-> IF j = i + 1 THEN o ELSE arr[j]]

\* *p of a pointer p; the nil pointer has address 0
Deref(heap, p) == IF p \in DOMAIN heap THEN heap[p] ELSE Nil

\* memory with the object o in it
Allocated(heap, o) ==
  IF o.type = "nil" \/ o.id \in DOMAIN heap THEN heap ELSE heap @@ (o.id :> o)

\* vm.stack[i] and vm.stack[i] = o
StackGet(m, i) ==
  IF i + 1 \in DOMAIN m.stack THEN Deref(m.heap, m.stack[i + 1]) ELSE Nil
StackSet(m, i, o) ==
  [m EXCEPT !.stack = SlotSet(@, i, o.id), !.heap = Allocated(@, o)]

NewFrame(fn, basePointer) == [fn |-> fn.id, ip |-> -1, basePointer |-> basePointer]

\* f.Instructions() of a frame f of the machine m
FrameInstructions(m, f) == Deref(m.heap, f.fn).Instructions

\* vm.New
VMNew(bytecode, nextId) ==
  [constants |-> bytecode.Constants,
   stack |-> <<>>, sp |-> 0,
   globals |-> <<>>,
   heap |-> Allocated(EmptyMap, CompiledFunction(bytecode.Instructions, 0, 0, nextId)),
   frames |-> <<NewFrame(CompiledFunction(bytecode.Instructions, 0, 0, nextId), 0)>>,
   frameIndex |-> 1,
   status |-> "running", err |-> NoErr, nextId |-> nextId + 1]

NewWithGlobalsStore(bytecode, s, nextId) ==
  [VMNew(bytecode, nextId) EXCEPT !.globals = s]

currentFrame(m) == m.frames[m.frameIndex]

\* a Go run-time panic ends the process; an error makes Run return it
Panic(m, what) == [m EXCEPT !.status = "panic", !.err = <<what>>]
Fail(m, e) == [m EXCEPT !.status = "error", !.err = e]

pushFrame(m, f) ==
  IF m.frameIndex >= MaxFrames THEN Panic(m, IndexOutOfRange)
  ELSE [m EXCEPT !.frames = SlotSet(@, m.frameIndex, f), !.frameIndex = @ + 1]

\* popFrame returns the frame that was current before the call
popFrame(m) == [m EXCEPT !.frameIndex = @ - 1]

push(m, o) ==
  IF m.sp >= StackSize THEN Fail(m, <<"stack overflow">>)
  ELSE IF m.sp < 0 THEN Panic(m, IndexOutOfRange)
  ELSE [StackSet(m, m.sp, o) EXCEPT !.sp = @ + 1]

InStack(i) == i >= 0 /\ i < StackSize

\* pop returns StackTop(m) and leaves the slot as it is
CanPop(m) == InStack(m.sp - 1)
StackTop(m) == StackGet(m, m.sp - 1)
\* (a pop that also clears the slot it vacates)
popAndClear(m) == [StackSet(m, m.sp - 1, Nil) EXCEPT !.sp = @ - 1]
pop(m) == [m EXCEPT !.sp = @ - 1]

LastPoppedStackElem(m) == StackGet(m, m.sp)

\* the loop condition of Run and the opcode the next iteration decodes
Looping(m) == currentFrame(m).ip < Len(FrameInstructions(m, currentFrame(m))) - 1
NextOp(m) == FrameInstructions(m, currentFrame(m))[currentFrame(m).ip + 2]

\* vm.currentFrame().ip += n
AddIp(m, n) == [m EXCEPT !.frames[m.frameIndex].ip = @ + n]
SetIp(m, ip) == [m EXCEPT !.frames[m.frameIndex].ip = ip]

\* the operand behind the opcode at ip; reading past the end is a panic
HasOperand(m, width) ==
  currentFrame(m).ip + width <= Len(FrameInstructions(m, currentFrame(m))) - 1
Operand(m, width) ==
  IF width = 2
    THEN ReadUint16(FrameInstructions(m, currentFrame(m)), currentFrame(m).ip + 1)
    ELSE ReadUint8(FrameInstructions(m, currentFrame(m)), currentFrame(m).ip + 1)

\* Go's / on integers truncates towards zero
GoDiv(a, b) ==
  LET q == (IF a < 0 THEN -a ELSE a) \div (IF b < 0 THEN -b ELSE b)
  IN IF (a < 0) = (b < 0) THEN q ELSE -q

nativeBoolToBooleanObject(input) == IF input THEN True ELSE False

\* a truthiness that takes the integer 0 for false
isTruthyButZero(obj) ==
  CASE obj.type = BOOLEAN_OBJ -> obj.Value = 1
    [] obj.type = NULL_OBJ -> FALSE
    [] obj.type = INTEGER_OBJ -> obj.Value # 0
    [] OTHER -> TRUE

isTruthy(obj) ==
  CASE obj.type = BOOLEAN_OBJ -> obj.Value = 1
    [] obj.type = NULL_OBJ -> FALSE
    [] OTHER -> TRUE

\* push of a freshly allocated object
pushNew(m, o) == push([m EXCEPT !.nextId = @ + 1], o)

executeBinaryIntegerOperation(m, op, left, right) ==
  CASE op = OpAdd -> pushNew(m, Integer(left.Value + right.Value, m.nextId))
    [] op = OpSub -> pushNew(m, Integer(left.Value - right.Value, m.nextId))
    [] op = OpMul -> pushNew(m, Integer(left.Value * right.Value, m.nextId))
    [] op = OpDiv ->
         IF right.Value = 0 THEN Panic(m, DivideByZero)
         ELSE pushNew(m, Integer(GoDiv(left.Value, right.Value), m.nextId))
    [] OTHER -> Fail(m, <<"unknown integer operator: %d", op>>)

executeBinaryStringOperation(m, op, left, right) ==
  IF op # OpAdd THEN Fail(m, <<"unknown string operator: %d", op>>)
  ELSE pushNew(m, String(left.Str \o right.Str, m.nextId))

executeBinaryOperation(m, op) ==
  IF ~CanPop(m) \/ ~CanPop(pop(m)) THEN Panic(m, IndexOutOfRange)
  ELSE LET right == StackTop(m)
           left == StackTop(pop(m))
           m2 == pop(pop(m))
       IN IF right.type = "nil" \/ left.type = "nil" THEN Panic(m2, NilDereference)
          ELSE IF left.type = INTEGER_OBJ /\ right.type = INTEGER_OBJ
            THEN executeBinaryIntegerOperation(m2, op, left, right)
          ELSE IF left.type = STRING_OBJ /\ right.type = STRING_OBJ
            THEN executeBinaryStringOperation(m2, op, left, right)
          ELSE Fail(m2, <<"unsupported types for binary operation: %s %s",
                          left.type, right.type>>)

executeIntegerComparison(m, op, left, right) ==
  CASE op = OpEqual -> push(m, nativeBoolToBooleanObject(right.Value = left.Value))
    [] op = OpNotEqual -> push(m, nativeBoolToBooleanObject(right.Value # left.Value))
    [] op = OpGreaterThan -> push(m, nativeBoolToBooleanObject(left.Value > right.Value))
    [] OTHER -> Fail(m, <<"unknown operator: %d", op>>)

\* objects that are not both integers are compared by address
executeComparison(m, op) ==
  IF ~CanPop(m) \/ ~CanPop(pop(m)) THEN Panic(m, IndexOutOfRange)
  ELSE LET right == StackTop(m)
           left == StackTop(pop(m))
           m2 == pop(pop(m))
       IN IF left.type = "nil" THEN Panic(m2, NilDereference)
          ELSE IF left.type = INTEGER_OBJ /\ right.type = "nil"
            THEN Panic(m2, NilDereference)
          ELSE IF left.type = INTEGER_OBJ /\ right.type = INTEGER_OBJ
            THEN executeIntegerComparison(m2, op, left, right)
          ELSE IF op = OpEqual
            THEN push(m2, nativeBoolToBooleanObject(right.id = left.id))
          ELSE IF op = OpNotEqual
            THEN push(m2, nativeBoolToBooleanObject(right.id # left.id))
          ELSE IF right.type = "nil" THEN Panic(m2, NilDereference)
          ELSE Fail(m2, <<"unknown operator: %d (%s %s)", op, left.type, right.type>>)

executeBangOperator(m) ==
  IF ~CanPop(m) THEN Panic(m, IndexOutOfRange)
  ELSE LET operand == StackTop(m)
       IN CASE operand.id = True.id -> push(pop(m), False)
            [] operand.id = False.id -> push(pop(m), True)
            [] operand.id = Null.id -> push(pop(m), True)
            [] OTHER -> push(pop(m), False)

executeMinusOperator(m) ==
  IF ~CanPop(m) THEN Panic(m, IndexOutOfRange)
  ELSE LET operand == StackTop(m)
       IN IF operand.type = "nil" THEN Panic(pop(m), NilDereference)
          ELSE IF operand.type # INTEGER_OBJ
            THEN Fail(pop(m), <<"unsupported type for negation: %s", operand.type>>)
          ELSE pushNew(pop(m), Integer(-operand.Value, m.nextId))

\* the stack slots start .. end-1 as a sequence
StackSlice(m, start, end) == [i \in 1..(end - start) |-> StackGet(m, start + i - 1)]

buildArray(m, start, end) == Array(StackSlice(m, start, end), m.nextId)

\* the key objects of the pairs in the slots start .. end-1, in order; a
\* last pair that starts in slot end-1 has its value in slot end
HashKeysOf(m, start, end) ==
  [i \in 1..((end - start + 1) \div 2) |-> StackGet(m, start + 2 * (i - 1))]

RECURSIVE HashPairsOf(_, _, _)
HashPairsOf(m, start, n) ==
  IF n = 0 THEN EmptyMap
  ELSE LET key == StackGet(m, start + 2 * (n - 1))
           value == StackGet(m, start + 2 * (n - 1) + 1)
       IN (HashKey(key) :> [Key |-> key, Value |-> value])
          @@ HashPairsOf(m, start, n - 1)

\* buildHash: ok is FALSE with the error or panic in m
buildHash(m, start, end) ==
  LET keys == HashKeysOf(m, start, end)
      n == Len(keys)
      bad == {i \in 1..n : ~Hashable(keys[i])}
      first == CHOOSE i \in bad : \A j \in bad : i <= j
      beyond == end - start = 2 * n - 1 /\ end >= StackSize
  IN IF n > 0 /\ start < 0
       THEN [ok |-> FALSE, m |-> Panic(m, IndexOutOfRange), hash |-> Nil]
     ELSE IF bad # {} /\ ~(beyond /\ first = n)
       THEN [ok |-> FALSE, hash |-> Nil,
             m |-> IF keys[first].type = "nil" THEN Panic(m, NilDereference)
                   ELSE Fail(m, <<"unusable as hash key: %s", keys[first].type>>)]
     ELSE IF beyond
       THEN [ok |-> FALSE, m |-> Panic(m, IndexOutOfRange), hash |-> Nil]
     ELSE [ok |-> TRUE, m |-> m, hash |-> Hash(HashPairsOf(m, start, n), m.nextId)]

executeArrayIndex(m, array, index) ==
  LET i == index.Value
      max == Len(array.Elements) - 1
  IN IF i < 0 \/ i > max THEN push(m, Null)
     ELSE push(m, array.Elements[i + 1])

executeHashIndex(m, hash, index) ==
  IF index.type = "nil" THEN Panic(m, NilDereference)
  ELSE IF ~Hashable(index)
    THEN Fail(m, <<"unusable as hash key: %s", index.type>>)
  ELSE IF HashKey(index) \notin DOMAIN hash.Pairs THEN push(m, Null)
  ELSE push(m, hash.Pairs[HashKey(index)].Value)

executeIndexExpression(m, left, index) ==
  IF left.type = "nil" THEN Panic(m, NilDereference)
  ELSE IF left.type = ARRAY_OBJ /\ index.type = "nil" THEN Panic(m, NilDereference)
  ELSE IF left.type = ARRAY_OBJ /\ index.type = INTEGER_OBJ
    THEN executeArrayIndex(m, left, index)
  ELSE IF left.type = HASH_OBJ THEN executeHashIndex(m, left, index)
  ELSE Fail(m, <<"index operator not supported: %s", left.type>>)

\* (a call that does not compare the argument count with NumParameters)
callFunctionUnchecked(m, numArgs) ==
  IF ~InStack(m.sp - numArgs - 1) THEN Panic(m, IndexOutOfRange)
  ELSE LET fn == StackGet(m, m.sp - numArgs - 1)
       IN IF fn.type # COMPILED_FUNCTION_OBJ THEN Fail(m, <<"calling non-function">>)
          ELSE LET frame == NewFrame(fn, m.sp - numArgs)
                   m1 == pushFrame(m, frame)
               IN IF m1.status = "panic" THEN m1
                  ELSE [m1 EXCEPT !.sp = frame.basePointer + fn.NumLocals]

callFunction(m, numArgs) ==
  IF ~InStack(m.sp - numArgs - 1) THEN Panic(m, IndexOutOfRange)
  ELSE LET fn == StackGet(m, m.sp - numArgs - 1)
       IN IF fn.type # COMPILED_FUNCTION_OBJ THEN Fail(m, <<"calling non-function">>)
          ELSE IF numArgs # fn.NumParameters
            THEN Fail(m, <<"wrong number of arguments, expected %d, actual %d",
                           fn.NumParameters, numArgs>>)
          ELSE LET frame == NewFrame(fn, m.sp - numArgs)
                   m1 == pushFrame(m, frame)
               IN IF m1.status = "panic" THEN m1
                  ELSE [m1 EXCEPT !.sp = frame.basePointer + fn.NumLocals]

(***************************************************************************)
(* Run: the cases of the switch.  Each takes the machine with ip already   *)
(* on the opcode.                                                          *)
(***************************************************************************)
ExecOpConstant(m) ==
  IF ~HasOperand(m, 2) THEN Panic(m, IndexOutOfRange)
  ELSE LET constIndex == Operand(m, 2)
           m1 == AddIp(m, 2)
       IN IF constIndex >= Len(m.constants) THEN Panic(m1, IndexOutOfRange)
          ELSE push(m1, m.constants[constIndex + 1])

ExecOpPop(m) == IF ~CanPop(m) THEN Panic(m, IndexOutOfRange) ELSE pop(m)

ExecOpJumpNotTruthy(m) ==
  IF ~HasOperand(m, 2) THEN Panic(m, IndexOutOfRange)
  ELSE LET pos == Operand(m, 2)
           m1 == AddIp(m, 2)
       IN IF ~CanPop(m1) THEN Panic(m1, IndexOutOfRange)
          ELSE IF ~isTruthy(StackTop(m1)) THEN SetIp(pop(m1), pos - 1)
          ELSE pop(m1)

ExecOpJump(m) ==
  IF ~HasOperand(m, 2) THEN Panic(m, IndexOutOfRange)
  ELSE SetIp(m, Operand(m, 2) - 1)

ExecOpCall(m) ==
  IF ~HasOperand(m, 1) THEN Panic(m, IndexOutOfRange)
  ELSE callFunction(AddIp(m, 1), Operand(m, 1))

\* (the frame and one slot popped, sp not set from the base pointer)
ExecOpReturnValueByPop(m) ==
  IF ~CanPop(m) THEN Panic(m, IndexOutOfRange)
  ELSE LET returnValue == StackTop(m)
           m1 == popFrame(pop(m))
       IN IF ~CanPop(m1) THEN Panic(m1, IndexOutOfRange)
          ELSE push(pop(m1), returnValue)

ExecOpReturnValue(m) ==
  IF ~CanPop(m) THEN Panic(m, IndexOutOfRange)
  ELSE LET returnValue == StackTop(m)
           frame == currentFrame(m)
           m1 == popFrame(pop(m))
       IN push([m1 EXCEPT !.sp = frame.basePointer - 1], returnValue)

\* the frame is popped, then one slot, then Null is pushed
ExecOpReturn(m) ==
  LET m1 == popFrame(m)
  IN IF ~CanPop(m1) THEN Panic(m1, IndexOutOfRange)
     ELSE push(pop(m1), Null)

ExecOpSetLocal(m) ==
  IF ~HasOperand(m, 1) THEN Panic(m, IndexOutOfRange)
  ELSE LET localIndex == Operand(m, 1)
           m1 == AddIp(m, 1)
           slot == currentFrame(m).basePointer + localIndex
       IN IF ~CanPop(m1) \/ ~InStack(slot) THEN Panic(m1, IndexOutOfRange)
          ELSE StackSet(pop(m1), slot, StackTop(m1))

\* (the local read at its index from the bottom of the stack)
ExecOpGetLocalFromBottom(m) ==
  IF ~HasOperand(m, 1) THEN Panic(m, IndexOutOfRange)
  ELSE LET localIndex == Operand(m, 1)
           m1 == AddIp(m, 1)
       IN IF ~InStack(localIndex) THEN Panic(m1, IndexOutOfRange)
          ELSE push(m1, StackGet(m, localIndex))

ExecOpGetLocal(m) ==
  IF ~HasOperand(m, 1) THEN Panic(m, IndexOutOfRange)
  ELSE LET localIndex == Operand(m, 1)
           m1 == AddIp(m, 1)
           slot == currentFrame(m).basePointer + localIndex
       IN IF ~InStack(slot) THEN Panic(m1, IndexOutOfRange)
          ELSE push(m1, StackGet(m, slot))

ExecOpSetGlobal(m) ==
  IF ~HasOperand(m, 2) THEN Panic(m, IndexOutOfRange)
  ELSE LET globalIndex == Operand(m, 2)
           m1 == AddIp(m, 2)
       IN IF ~CanPop(m1) THEN Panic(m1, IndexOutOfRange)
          ELSE [pop(m1) EXCEPT !.globals = SlotSet(@, globalIndex, StackTop(m1))]

ExecOpGetGlobal(m) ==
  IF ~HasOperand(m, 2) THEN Panic(m, IndexOutOfRange)
  ELSE push(AddIp(m, 2), SlotGet(m.globals, Operand(m, 2)))

ExecOpArray(m) ==
  IF ~HasOperand(m, 2) THEN Panic(m, IndexOutOfRange)
  ELSE LET count == Operand(m, 2)
           m1 == AddIp(m, 2)
       IN IF count > 0 /\ m.sp - count < 0 THEN Panic(m1, IndexOutOfRange)
          ELSE pushNew([m1 EXCEPT !.sp = @ - count],
                       buildArray(m1, m.sp - count, m.sp))

ExecOpHash(m) ==
  IF ~HasOperand(m, 2) THEN Panic(m, IndexOutOfRange)
  ELSE LET count == Operand(m, 2)
           m1 == AddIp(m, 2)
           h == buildHash(m1, m.sp - count, m.sp)
       IN IF ~h.ok THEN h.m
          ELSE pushNew([m1 EXCEPT !.sp = @ - count], h.hash)

ExecOpIndex(m) ==
  IF ~CanPop(m) \/ ~CanPop(pop(m)) THEN Panic(m, IndexOutOfRange)
  ELSE executeIndexExpression(pop(pop(m)), StackTop(pop(m)), StackTop(m))

\* an opcode without a case in the switch: nothing happens, and its operand
\* bytes are decoded as opcodes by the next iterations
ExecUnhandled(m) == m

HandledOps ==
  {OpConstant, OpPop, OpJumpNotTruthy, OpJump, OpCall, OpReturnValue, OpReturn,
   OpSetLocal, OpGetLocal, OpAdd, OpSub, OpMul, OpDiv, OpEqual, OpNotEqual,
   OpGreaterThan, OpSetGlobal, OpGetGlobal, OpMinus, OpBang, OpArray, OpHash,
   OpIndex, OpTrue, OpFalse, OpNull}

\* the switch of Run on the opcode at ip
ExecOp(m, op) ==
  CASE op = OpConstant -> ExecOpConstant(m)
    [] op = OpPop -> ExecOpPop(m)
    [] op = OpJumpNotTruthy -> ExecOpJumpNotTruthy(m)
    [] op = OpJump -> ExecOpJump(m)
    [] op = OpCall -> ExecOpCall(m)
    [] op = OpReturnValue -> ExecOpReturnValue(m)
    [] op = OpReturn -> ExecOpReturn(m)
    [] op = OpSetLocal -> ExecOpSetLocal(m)
    [] op = OpGetLocal -> ExecOpGetLocal(m)
    [] op \in {OpAdd, OpSub, OpMul, OpDiv} -> executeBinaryOperation(m, op)
    [] op \in {OpEqual, OpNotEqual, OpGreaterThan} -> executeComparison(m, op)
    [] op = OpSetGlobal -> ExecOpSetGlobal(m)
    [] op = OpGetGlobal -> ExecOpGetGlobal(m)
    [] op = OpMinus -> executeMinusOperator(m)
    [] op = OpBang -> executeBangOperator(m)
    [] op = OpArray -> ExecOpArray(m)
    [] op = OpHash -> ExecOpHash(m)
    [] op = OpIndex -> ExecOpIndex(m)
    [] op = OpTrue -> push(m, True)
    [] op = OpFalse -> push(m, False)
    [] op = OpNull -> push(m, Null)
    [] OTHER -> ExecUnhandled(m)

\* one iteration of the loop of Run, or its return when the loop ends
Step(m) ==
  IF ~Looping(m) THEN [m EXCEPT !.status = "done"]
  ELSE ExecOp(AddIp(m, 1), NextOp(m))

\* Run to its end: the machine when Run returns or the process panics
RECURSIVE Run(_)
Run(m) == IF m.status # "running" THEN m ELSE Run(Step(m))

(***************************************************************************)
(* The lines typed at the REPL, as the parser returns them.                *)
(***************************************************************************)
\* the largest integer literal of the generated comparison lines
MaxInt == 2
\* the largest number of parameters and of arguments of the generated calls
MaxArgs == 2

\* the number of lets in the branch that is not taken
DeadLets == 40

\* a line the parser reports errors for
ParserErrors == [k |-> "ParserErrors"]

Stmt(e) == ExpressionStatement(e)
Num(v) == IntegerLiteral(v)
Fn(body) == FunctionLiteral(<<>>, BlockStatement(body), "")
Call(f) == CallExpression(f, <<>>)
LetFn(name, params, body) ==
  LetStatement(name, FunctionLiteral(params, BlockStatement(body), name))

\* let f = fn() { 5 };      and then      9; f();
LineDefF == Program(<<LetFn("f", <<>>, <<Stmt(Num(5))>>)>>)
LineCallF == Program(<<Stmt(Num(9)), Stmt(Call(Identifier("f")))>>)

\* let f = fn() { let a = 1; }; f();
LineImplicitReturn ==
  Program(<<LetFn("f", <<>>, <<LetStatement("a", Num(1))>>),
            Stmt(Call(Identifier("f")))>>)

\* 5; let a = 1;
LineLetLast == Program(<<Stmt(Num(5)), LetStatement("a", Num(1))>>)

\* let newAdder = fn(a) { fn(b) { a + b } }; let addTwo = newAdder(2); addTwo(3);
LineNewAdder ==
  Program(<<LetFn("newAdder", <<"a">>,
                  <<Stmt(FunctionLiteral(<<"b">>,
                      BlockStatement(<<Stmt(InfixExpression(Identifier("a"), "+",
                                                            Identifier("b")))>>), ""))>>),
            LetStatement("addTwo", CallExpression(Identifier("newAdder"), <<Num(2)>>)),
            Stmt(CallExpression(Identifier("addTwo"), <<Num(3)>>))>>)

\* let mk = fn() { let a = 1; fn() { a } }; let c = mk(); [7, c()];
LineCapture ==
  Program(<<LetFn("mk", <<>>, <<LetStatement("a", Num(1)),
                                Stmt(Fn(<<Stmt(Identifier("a"))>>))>>),
            LetStatement("c", Call(Identifier("mk"))),
            Stmt(ArrayLiteral(<<Num(7), Call(Identifier("c"))>>))>>)

\* let countDown = fn(x) { countDown(x - 1); }; countDown(1);
LineCountDown ==
  Program(<<LetFn("countDown", <<"x">>,
                  <<Stmt(CallExpression(Identifier("countDown"),
                           <<InfixExpression(Identifier("x"), "-", Num(1))>>))>>),
            Stmt(CallExpression(Identifier("countDown"), <<Num(1)>>))>>)

\* let loop = fn() { loop() };
LineLoop == Program(<<LetFn("loop", <<>>, <<Stmt(Call(Identifier("loop")))>>)>>)

\* let f = fn() { if (false) { let a = true; ... DeadLets times }; 5() };
\* every call of f reserves DeadLets slots for locals that are defined in a
\* branch which is not taken
LineDeepLocals ==
  Program(<<LetFn("f", <<>>,
     <<Stmt(IfExpression(Boolean(FALSE),
              BlockStatement([i \in 1..DeadLets |-> LetStatement("a", Boolean(TRUE))]),
              NoNode)),
       Stmt(Call(Num(5)))>>)>>)

\* let f = fn() { 5() };
LineDeepFrames == Program(<<LetFn("f", <<>>, <<Stmt(Call(Num(5)))>>)>>)

\* fn() { f() }; f();
LineRecurse ==
  Program(<<Stmt(Fn(<<Stmt(Call(Identifier("f")))>>)), Stmt(Call(Identifier("f")))>>)

If(c, b, a) == IfExpression(c, BlockStatement(b), BlockStatement(a))

\* let r = if (true) { if (false) { 10 } else { 20 } } else { 30 }; r;
LineNestedIf ==
  Program(<<LetStatement("r",
              If(Boolean(TRUE),
                 <<Stmt(If(Boolean(FALSE), <<Stmt(Num(10))>>, <<Stmt(Num(20))>>))>>,
                 <<Stmt(Num(30))>>)),
            Stmt(Identifier("r"))>>)

\* let s = if (if (false) { 1 }) { 10 } else { 20 }; s;
LineIfInCondition ==
  Program(<<LetStatement("s",
              If(IfExpression(Boolean(FALSE), BlockStatement(<<Stmt(Num(1))>>), NoNode),
                 <<Stmt(Num(10))>>, <<Stmt(Num(20))>>)),
            Stmt(Identifier("s"))>>)

\* let h = fn() { if (1 > 2) { 10 } else { if (true) { 20 } } }; h();
LineIfInFunction ==
  Program(<<LetFn("h", <<>>,
              <<Stmt(If(InfixExpression(Num(1), ">", Num(2)),
                        <<Stmt(Num(10))>>,
                        <<Stmt(IfExpression(Boolean(TRUE),
                                 BlockStatement(<<Stmt(Num(20))>>), NoNode))>>))>>),
            Stmt(Call(Identifier("h")))>>)

\* let k = fn() { if (true) { return 1; } else { }; 2 }; k();
LineIfReturns ==
  Program(<<LetFn("k", <<>>,
              <<Stmt(If(Boolean(TRUE), <<ReturnStatement(Num(1))>>, <<>>)),
                Stmt(Num(2))>>),
            Stmt(Call(Identifier("k")))>>)

NestedIfLines == <<LineNestedIf, LineIfInCondition, LineIfInFunction, LineIfReturns>>

\* <left> == <right>; and <left> != <right>; on strings, arrays and hashes,
\* and on one array compared with itself
EqualityOperands ==
  << StringLiteral("a"), StringLiteral("b"), ArrayLiteral(<<Num(1)>>),
     HashLiteral(<<>>), Num(1) >>
EqualityLines ==
  [n \in 1..(2 * Len(EqualityOperands) * Len(EqualityOperands)) |->
     Program(<<Stmt(InfixExpression(
        EqualityOperands[((n - 1) % Len(EqualityOperands)) + 1],
        IF n > Len(EqualityOperands) * Len(EqualityOperands) THEN "!=" ELSE "==",
        EqualityOperands[(((n - 1) \div Len(EqualityOperands))
                          % Len(EqualityOperands)) + 1]))>>)]
  \o << Program(<<LetStatement("e", ArrayLiteral(<<Num(1)>>)),
                  Stmt(InfixExpression(Identifier("e"), "==", Identifier("e")))>>),
        Program(<<LetStatement("e", HashLiteral(<<>>)),
                  Stmt(InfixExpression(Identifier("e"), "!=", Identifier("e")))>>) >>

\* !<operand>;   and   let t = if (<operand>) { 10 } else { 20 }; t;
\* the operands are the two booleans, the null of an if expression without
\* alternative, and values of every other type
TruthOperands ==
  << Boolean(TRUE), Boolean(FALSE),
     IfExpression(Boolean(FALSE), BlockStatement(<<Stmt(Num(1))>>), NoNode),
     Num(0), Num(5), StringLiteral(""), StringLiteral("a"),
     ArrayLiteral(<<>>), HashLiteral(<<>>), Fn(<<>>) >>
TruthLines ==
  [n \in 1..Len(TruthOperands) |->
     Program(<<Stmt(PrefixExpression("!", TruthOperands[n]))>>)]
  \o [n \in 1..Len(TruthOperands) |->
        Program(<<LetStatement("t", If(TruthOperands[n], <<Stmt(Num(10))>>,
                                                        <<Stmt(Num(20))>>)),
                  Stmt(Identifier("t"))>>)]

\* <builtin>();   for every builtin, a wrong number of arguments for all but
\* puts; len(1); and push(1, 2); have an argument of a wrong type, and
\* len("a"); and push([1], 2); are right
BuiltinLines ==
  [n \in 1..Len(Builtins) |->
     Program(<<Stmt(CallExpression(Identifier(Builtins[n]), <<>>))>>)]
  \o << Program(<<Stmt(CallExpression(Identifier("len"), <<Num(1)>>))>>),
        Program(<<Stmt(CallExpression(Identifier("push"), <<Num(1), Num(2)>>))>>),
        Program(<<Stmt(CallExpression(Identifier("len"), <<StringLiteral("a")>>))>>),
        Program(<<Stmt(CallExpression(Identifier("push"),
                         <<ArrayLiteral(<<Num(1)>>), Num(2)>>))>>) >>

\* lines the compiler rejects, each with the error it is to report
ErrorCase(stmts, format, what) ==
  [program |-> Program(stmts), err |-> <<format, what>>]
ErrorCases ==
  << \* 1; x; 5;
     ErrorCase(<<Stmt(Num(1)), Stmt(Identifier("x")), Stmt(Num(5))>>,
               "undefined variable %s", "x"),
     \* true && false; 7;
     ErrorCase(<<Stmt(InfixExpression(Boolean(TRUE), "&&", Boolean(FALSE))),
                 Stmt(Num(7))>>,
               "unknown operator %s", "&&"),
     \* true || x;
     ErrorCase(<<Stmt(InfixExpression(Boolean(TRUE), "||", Identifier("x")))>>,
               "undefined variable %s", "x"),
     \* !(1 || 2); x;
     ErrorCase(<<Stmt(PrefixExpression("!", InfixExpression(Num(1), "||", Num(2)))),
                 Stmt(Identifier("x"))>>,
               "unknown operator %s", "||"),
     \* 0; x < y;
     ErrorCase(<<Stmt(Num(0)),
                 Stmt(InfixExpression(Identifier("x"), "<", Identifier("y")))>>,
               "undefined variable %s", "y"),
     \* [2, y, x];
     ErrorCase(<<Stmt(ArrayLiteral(<<Num(2), Identifier("y"), Identifier("x")>>))>>,
               "undefined variable %s", "y"),
     \* fn() { y; x };
     ErrorCase(<<Stmt(Fn(<<Stmt(Identifier("y")), Stmt(Identifier("x"))>>))>>,
               "undefined variable %s", "y"),
     \* let a = b; let b = 1; b;
     ErrorCase(<<LetStatement("a", Identifier("b")), LetStatement("b", Num(1)),
                 Stmt(Identifier("b"))>>,
               "undefined variable %s", "b"),
     \* if (true) { y } else { z };
     ErrorCase(<<Stmt(If(Boolean(TRUE), <<Stmt(Identifier("y"))>>,
                                        <<Stmt(Identifier("z"))>>))>>,
               "undefined variable %s", "y") >>
ErrorLines == [n \in 1..Len(ErrorCases) |-> ErrorCases[n].program]

\* let a = 1; q; let c = 2;      and then      c;
LineFailsBeforeLet ==
  Program(<<LetStatement("a", Num(1)), Stmt(Identifier("q")),
            LetStatement("c", Num(2))>>)

\* a hash literal hands its pairs out in the order the map iterates them:
\* the same literal in two orders is the same source text
HashLine(pairs) == Program(<<Stmt(HashLiteral(pairs))>>)
BothOrders(p, q) == <<HashLine(<<p, q>>), HashLine(<<q, p>>)>>
HashLines ==
  << HashLine(<<>>), HashLine(<< <<Num(1), Num(2)>> >>) >>
  \* {2: 1, 10: 2}
  \o BothOrders(<<Num(2), Num(1)>>, <<Num(10), Num(2)>>)
  \* {"b": 1, true: 2}
  \o BothOrders(<<StringLiteral("b"), Num(1)>>, <<Boolean(TRUE), Num(2)>>)
  \* {1: 2, 1: 3}
  \o BothOrders(<<Num(1), Num(2)>>, <<Num(1), Num(3)>>)
  \* {"a": 1, "a": 2}
  \o BothOrders(<<StringLiteral("a"), Num(1)>>, <<StringLiteral("a"), Num(2)>>)
  \* {1 + 1: 5, 2: 6, 1: 7}
  \o << HashLine(<< <<InfixExpression(Num(1), "+", Num(1)), Num(5)>>,
                     <<Num(2), Num(6)>>, <<Num(1), Num(7)>> >>),
         HashLine(<< <<Num(1), Num(7)>>, <<Num(2), Num(6)>>,
                     <<InfixExpression(Num(1), "+", Num(1)), Num(5)>> >>) >>

\* function literals with parameters and lets of their own
FunctionLines ==
  << \* fn(a) { let b = 1; b };
     Program(<<Stmt(FunctionLiteral(<<"a">>,
                 BlockStatement(<<LetStatement("b", Num(1)), Stmt(Identifier("b"))>>),
                 ""))>>),
     \* fn(a, b) { };
     Program(<<Stmt(FunctionLiteral(<<"a", "b">>, BlockStatement(<<>>), ""))>>),
     \* fn() { let a = 1; let a = 2; a };
     Program(<<Stmt(Fn(<<LetStatement("a", Num(1)), LetStatement("a", Num(2)),
                         Stmt(Identifier("a"))>>))>>),
     \* fn() { 1; 2 };
     Program(<<Stmt(Fn(<<Stmt(Num(1)), Stmt(Num(2))>>))>>) >>

\* fn() { <body> }(); for bodies that end in each kind of statement
FunctionBodies ==
  << <<>>,
     <<Stmt(Num(1))>>,
     <<LetStatement("a", Num(1))>>,
     <<ReturnStatement(Num(1))>>,
     <<Stmt(Num(1)), LetStatement("a", Num(2))>>,
     <<LetStatement("a", Num(1)), Stmt(Identifier("a"))>>,
     <<Stmt(If(Boolean(TRUE), <<>>, <<>>))>>,
     <<Stmt(IfExpression(Boolean(FALSE), BlockStatement(<<Stmt(Num(1))>>), NoNode))>>,
     <<Stmt(If(Boolean(TRUE), <<ReturnStatement(Num(1))>>, <<ReturnStatement(Num(2))>>))>>,
     <<Stmt(If(Boolean(FALSE), <<LetStatement("a", Num(1))>>, <<Stmt(Num(2))>>))>>,
     <<Stmt(If(Boolean(TRUE),
               <<Stmt(If(Boolean(TRUE), <<Stmt(Num(1))>>, <<Stmt(Num(2))>>))>>,
               <<Stmt(Num(3))>>))>>,
     <<LetStatement("a", If(Boolean(TRUE), <<Stmt(Num(1))>>, <<Stmt(Num(2))>>))>>,
     <<ReturnStatement(If(Boolean(FALSE), <<Stmt(Num(1))>>, <<Stmt(Num(2))>>))>>,
     <<Stmt(Fn(<<>>))>>,
     <<LetStatement("a", Fn(<<Stmt(Num(1))>>))>>,
     <<Stmt(Call(Fn(<<LetStatement("a", Num(1))>>)))>> >>
CalledFunctionLines ==
  [n \in 1..Len(FunctionBodies) |-> Program(<<Stmt(Call(Fn(FunctionBodies[n])))>>)]

\* lines of one turn each that between them use every instruction
BasicLines ==
  << Program(<<Stmt(InfixExpression(Num(1), "+", InfixExpression(Num(2), "*", Num(3))))>>),
     Program(<<Stmt(InfixExpression(
                 InfixExpression(InfixExpression(Num(5), "-", Num(1)), "/", Num(2)),
                 "==", Num(2)))>>),
     Program(<<Stmt(PrefixExpression("!", Boolean(TRUE))),
               Stmt(InfixExpression(PrefixExpression("-", Num(5)), "!=", Num(2)))>>),
     Program(<<Stmt(InfixExpression(StringLiteral("a"), "+", StringLiteral("b")))>>),
     Program(<<LetStatement("a", ArrayLiteral(<<Num(1), Num(2), Num(3)>>)),
               Stmt(IndexExpression(Identifier("a"), Num(1)))>>),
     Program(<<Stmt(IndexExpression(
                 HashLiteral(<< <<StringLiteral("two"), Num(2)>>,
                                <<StringLiteral("one"), Num(1)>> >>),
                 StringLiteral("two")))>>),
     Program(<<LetFn("g", <<>>, <<LetStatement("r", Num(7)),
                                  ReturnStatement(Identifier("r"))>>),
               Stmt(Call(Identifier("g")))>>),
     Program(<<Stmt(Call(Fn(<<>>)))>>),
     Program(<<Stmt(InfixExpression(Num(1), "+", Boolean(TRUE)))>>),
     Program(<<Stmt(Call(Num(5)))>>),
     Program(<<Stmt(Identifier("x"))>>),
     Program(<<Stmt(InfixExpression(Num(1), "/", Num(0)))>>),
     Program(<<>>),
     ParserErrors,
     LineImplicitReturn, LineLetLast, LineNewAdder, LineCapture,
     LineCountDown, LineLoop >>

\* if (<condition>) { <consequence> } else { <alternative> };
IfConditions ==
  <<Boolean(TRUE), Boolean(FALSE), InfixExpression(Num(1), ">", Num(2)), Num(5)>>
IfBlocks ==
  << <<Stmt(Num(10))>>, <<>>, <<LetStatement("a", Num(1))>>,
     <<Stmt(Num(3)), Stmt(Num(4))>> >>
IfLine(c, b, a) ==
  Program(<<Stmt(IfExpression(IfConditions[c], BlockStatement(IfBlocks[b]),
       IF a = 0 THEN NoNode ELSE BlockStatement(IfBlocks[a])))>>)
IfLines ==
  [n \in 1..(Len(IfConditions) * Len(IfBlocks) * (Len(IfBlocks) + 1)) |->
     IfLine(((n - 1) % Len(IfConditions)) + 1,
            (((n - 1) \div Len(IfConditions)) % Len(IfBlocks)) + 1,
            (n - 1) \div (Len(IfConditions) * Len(IfBlocks)))]

\* <left> < <right>;
LessOperands ==
  [i \in 1..(MaxInt + 1) |-> Num(i - 1)]
  \o << Boolean(TRUE), InfixExpression(Num(1), "+", Num(1)),
        InfixExpression(Num(1), "+", Boolean(TRUE)),
        PrefixExpression("-", Boolean(TRUE)) >>
LessLines ==
  [n \in 1..(Len(LessOperands) * Len(LessOperands)) |->
     Program(<<Stmt(InfixExpression(LessOperands[((n - 1) % Len(LessOperands)) + 1], "<",
                                    LessOperands[((n - 1) \div Len(LessOperands)) + 1]))>>)]

\* return 1;
LineTopLevelReturn == Program(<<ReturnStatement(Num(1))>>)

\* if (false) { let a = 1; } else { 0 }; a;
LineLetNotRun ==
  Program(<<Stmt(If(Boolean(FALSE), <<LetStatement("a", Num(1))>>, <<Stmt(Num(0))>>)),
            Stmt(Identifier("a"))>>)

\* fn() { if (false) { let a = 1; } else { 0 }; a }();
LineLocalLetNotRun ==
  Program(<<Stmt(Call(Fn(<<Stmt(If(Boolean(FALSE), <<LetStatement("a", Num(1))>>, <<Stmt(Num(0))>>)),
                           Stmt(Identifier("a"))>>)))>>)

\* let a = 1; q;
LineLetThenUndefined ==
  Program(<<LetStatement("a", Num(1)), Stmt(Identifier("q"))>>)

\* let b = 1 + true;
LineLetOfError ==
  Program(<<LetStatement("b", InfixExpression(Num(1), "+", Boolean(TRUE)))>>)

\* 5 + fn() { if (true) { }; if (true) { }; 1 }();
LineCalleePopsBelow ==
  Program(<<Stmt(InfixExpression(Num(5), "+",
     Call(Fn(<<Stmt(IfExpression(Boolean(TRUE), BlockStatement(<<>>), NoNode)),
               Stmt(IfExpression(Boolean(TRUE), BlockStatement(<<>>), NoNode)),
               Stmt(Num(1))>>))))>>)

\* a session is the sequence of lines read from the input until its end
Sessions ==
  [n \in 1..Len(BasicLines) |-> <<BasicLines[n]>>]
  \o [n \in 1..Len(IfLines) |-> <<IfLines[n]>>]
  \o [n \in 1..Len(LessLines) |-> <<LessLines[n]>>]
  \o [n \in 1..Len(NestedIfLines) |-> <<NestedIfLines[n]>>]
  \o [n \in 1..Len(EqualityLines) |-> <<EqualityLines[n]>>]
  \o [n \in 1..Len(TruthLines) |-> <<TruthLines[n]>>]
  \o [n \in 1..Len(BuiltinLines) |-> <<BuiltinLines[n]>>]
  \o [n \in 1..Len(ErrorLines) |-> <<ErrorLines[n]>>]
  \o [n \in 1..Len(HashLines) |-> <<HashLines[n]>>]
  \o [n \in 1..Len(FunctionLines) |-> <<FunctionLines[n]>>]
  \o [n \in 1..Len(CalledFunctionLines) |-> <<CalledFunctionLines[n]>>]
  \o << <<LineFailsBeforeLet, Program(<<Stmt(Identifier("c"))>>)>> >>
  \o << <<LineDefF, LineCallF>>,
        <<Program(<<LetStatement("a", Num(1))>>),
          Program(<<LetStatement("b", InfixExpression(Identifier("a"), "+", Num(1)))>>),
          Program(<<Stmt(Identifier("b"))>>)>>,
        <<Program(<<Stmt(Identifier("x"))>>), ParserErrors,
          Program(<<Stmt(InfixExpression(Num(1), "+", Boolean(TRUE)))>>),
          Program(<<Stmt(Num(1))>>)>>,
        <<LineDeepLocals, LineRecurse>>,
        <<LineDeepFrames, LineRecurse>>,
        <<LineTopLevelReturn>>,
        <<LineCalleePopsBelow>>,
        <<LineLetNotRun>>,
        <<LineLocalLetNotRun>>,
        <<LineLetThenUndefined, Program(<<Stmt(Identifier("a"))>>)>>,
        <<LineLetOfError, Program(<<Stmt(Identifier("b"))>>)>> >>

(***************************************************************************)
(* The REPL: Start reads a line, compiles it with the symbol table and the *)
(* constants it holds, runs it on a machine that shares its globals, and   *)
(* prints the element popped last.                                         *)
(***************************************************************************)
VARIABLES
  input,        \* the lines of the input, in order
  turn,         \* the number of lines scanned so far
  phase,        \* where the process is: prompt, run, exited or crashed
  constants,    \* Start's constants
  symbolTable,  \* Start's symbol table (the global table)
  globals,      \* Start's globals, shared with the machine of every turn
  machine,      \* the virtual machine of the current turn
  out,          \* what has been written to the output, one entry a turn
  popped,       \* the object the latest OpPop of the main frame removed
  nextId        \* the address of the next object the process allocates

vars == <<input, turn, phase, constants, symbolTable, globals, machine, out,
          popped, nextId>>

\* no machine has been created yet
NoMachine ==
  [constants |-> <<>>, stack |-> <<>>, sp |-> 0, globals |-> <<>>,
   heap |-> EmptyMap, frames |-> <<>>, frameIndex |-> 0, status |-> "none",
   err |-> NoErr, nextId |-> FirstId]

Output(kind, val, err) == [kind |-> kind, val |-> val, err |-> err]

Init ==
  /\ \E n \in 1..Len(Sessions) : input = Sessions[n]
  /\ turn = 0
  /\ phase = "prompt"
  /\ constants = <<>>
  /\ symbolTable = NewSymbolTable
  /\ globals = <<>>
  /\ machine = NoMachine
  /\ out = <<>>
  /\ popped = Nil
  /\ nextId = FirstId

\* one iteration of Start up to the call of Run; Start's constants are
\* handed to the compiler and never assigned again
ReadLine ==
  /\ phase = "prompt"
  /\ turn < Len(input)
  /\ turn' = turn + 1
  /\ popped' = Nil
  /\ UNCHANGED <<input, constants, globals>>
  /\ LET program == input[turn + 1]
         comp == Compile(NewWithState(symbolTable, constants, nextId), program)
     IN IF program.k = "ParserErrors"
          THEN /\ out' = Append(out, Output("parser errors", Nil, NoErr))
               /\ UNCHANGED <<phase, symbolTable, machine, nextId>>
        ELSE IF Failed(comp)
          THEN /\ out' = Append(out, Output("Compilation failed: %s", Nil, comp.err))
               /\ symbolTable' = comp.symbolTable[1]
               /\ nextId' = comp.nextId
               /\ UNCHANGED <<phase, machine>>
        ELSE /\ machine' = NewWithGlobalsStore(Bytecode(comp), globals, comp.nextId)
             /\ symbolTable' = comp.symbolTable[1]
             /\ nextId' = comp.nextId + 1
             /\ phase' = "run"
             /\ out' = out

\* Scan returns false: Start returns
EndOfInput ==
  /\ phase = "prompt"
  /\ turn = Len(input)
  /\ phase' = "exited"
  /\ UNCHANGED <<input, turn, constants, symbolTable, globals, machine, out,
                 popped, nextId>>

\* the machine after one iteration of Run; a panic ends the process
Iterate(m) ==
  /\ machine' = m
  /\ globals' = m.globals
  /\ phase' = IF m.status = "panic" THEN "crashed" ELSE phase
  /\ UNCHANGED <<input, turn, constants, symbolTable, out, nextId>>

\* Run is in its loop and decodes op next
Decodes(ops) ==
  /\ phase = "run"
  /\ machine.status = "running"
  /\ Looping(machine)
  /\ NextOp(machine) \in ops

DoOpConstant ==
  Decodes({OpConstant}) /\ Iterate(ExecOpConstant(AddIp(machine, 1))) /\ popped' = popped

DoOpPop ==
  /\ Decodes({OpPop})
  /\ Iterate(ExecOpPop(AddIp(machine, 1)))
  /\ popped' = IF machine.frameIndex = 1 /\ CanPop(machine)
                 THEN StackTop(machine) ELSE popped

DoOpJumpNotTruthy ==
  Decodes({OpJumpNotTruthy}) /\ Iterate(ExecOpJumpNotTruthy(AddIp(machine, 1)))
  /\ popped' = popped

DoOpJump ==
  Decodes({OpJump}) /\ Iterate(ExecOpJump(AddIp(machine, 1))) /\ popped' = popped

DoOpCall ==
  Decodes({OpCall}) /\ Iterate(ExecOpCall(AddIp(machine, 1))) /\ popped' = popped

DoOpReturnValue ==
  Decodes({OpReturnValue}) /\ Iterate(ExecOpReturnValue(AddIp(machine, 1)))
  /\ popped' = popped

DoOpReturn ==
  Decodes({OpReturn}) /\ Iterate(ExecOpReturn(AddIp(machine, 1))) /\ popped' = popped

DoOpSetLocal ==
  Decodes({OpSetLocal}) /\ Iterate(ExecOpSetLocal(AddIp(machine, 1))) /\ popped' = popped

DoOpGetLocal ==
  Decodes({OpGetLocal}) /\ Iterate(ExecOpGetLocal(AddIp(machine, 1))) /\ popped' = popped

DoBinaryOperation ==
  /\ Decodes({OpAdd, OpSub, OpMul, OpDiv})
  /\ Iterate(executeBinaryOperation(AddIp(machine, 1), NextOp(machine)))
  /\ popped' = popped

DoComparison ==
  /\ Decodes({OpEqual, OpNotEqual, OpGreaterThan})
  /\ Iterate(executeComparison(AddIp(machine, 1), NextOp(machine)))
  /\ popped' = popped

DoOpSetGlobal ==
  Decodes({OpSetGlobal}) /\ Iterate(ExecOpSetGlobal(AddIp(machine, 1))) /\ popped' = popped

DoOpGetGlobal ==
  Decodes({OpGetGlobal}) /\ Iterate(ExecOpGetGlobal(AddIp(machine, 1))) /\ popped' = popped

DoOpMinus ==
  Decodes({OpMinus}) /\ Iterate(executeMinusOperator(AddIp(machine, 1))) /\ popped' = popped

DoOpBang ==
  Decodes({OpBang}) /\ Iterate(executeBangOperator(AddIp(machine, 1))) /\ popped' = popped

DoOpArray ==
  Decodes({OpArray}) /\ Iterate(ExecOpArray(AddIp(machine, 1))) /\ popped' = popped

DoOpHash ==
  Decodes({OpHash}) /\ Iterate(ExecOpHash(AddIp(machine, 1))) /\ popped' = popped

DoOpIndex ==
  Decodes({OpIndex}) /\ Iterate(ExecOpIndex(AddIp(machine, 1))) /\ popped' = popped

DoOpTrue ==
  Decodes({OpTrue}) /\ Iterate(push(AddIp(machine, 1), True)) /\ popped' = popped

DoOpFalse ==
  Decodes({OpFalse}) /\ Iterate(push(AddIp(machine, 1), False)) /\ popped' = popped

DoOpNull ==
  Decodes({OpNull}) /\ Iterate(push(AddIp(machine, 1), Null)) /\ popped' = popped

\* an opcode the switch has no case for
DoUnhandled ==
  /\ phase = "run" /\ machine.status = "running" /\ Looping(machine)
  /\ NextOp(machine) \notin HandledOps
  /\ Iterate(ExecUnhandled(AddIp(machine, 1)))
  /\ popped' = popped

\* Run returns nil: Start prints LastPoppedStackElem().Inspect(), which
\* panics on the nil of a slot that was never written
RunReturn ==
  /\ phase = "run"
  /\ machine.status = "running"
  /\ ~Looping(machine)
  /\ machine' = [machine EXCEPT !.status = "done"]
  /\ nextId' = machine.nextId
  /\ IF InStack(machine.sp) /\ LastPoppedStackElem(machine).type # "nil"
       THEN /\ out' = Append(out, Output("value", LastPoppedStackElem(machine), NoErr))
            /\ phase' = "prompt"
       ELSE /\ out' = out
            /\ phase' = "crashed"
  /\ UNCHANGED <<input, turn, constants, symbolTable, globals, popped>>

\* Run returns an error: Start prints it and reads the next line
RunFailed ==
  /\ phase = "run"
  /\ machine.status = "error"
  /\ out' = Append(out, Output("Executing bytecode failed: %s", Nil, machine.err))
  /\ phase' = "prompt"
  /\ nextId' = machine.nextId
  /\ machine' = [machine EXCEPT !.status = "failed"]
  /\ UNCHANGED <<input, turn, constants, symbolTable, globals, popped>>

Instruction ==
  \/ DoOpConstant \/ DoOpPop \/ DoOpJumpNotTruthy \/ DoOpJump \/ DoOpCall
  \/ DoOpReturnValue \/ DoOpReturn \/ DoOpSetLocal \/ DoOpGetLocal
  \/ DoBinaryOperation \/ DoComparison \/ DoOpSetGlobal \/ DoOpGetGlobal
  \/ DoOpMinus \/ DoOpBang \/ DoOpArray \/ DoOpHash \/ DoOpIndex
  \/ DoOpTrue \/ DoOpFalse \/ DoOpNull

\* the compiler emits none of the opcodes the switch has no case for, so
\* DoUnhandled is a step of the machine only when it is given bytecode directly
Next == ReadLine \/ EndOfInput \/ Instruction \/ RunReturn \/ RunFailed

Spec == Init /\ [][Next]_vars

(***************************************************************************)
(* The machine driven through its own interface: New with a bytecode, then *)
(* Run.  The bytecodes are those the compiler makes of single lines and    *)
(* those of calls that pass arguments.                                     *)
(***************************************************************************)
Compiles(program) ==
  program.k # "ParserErrors" /\ ~Failed(Compile(CompilerNew(FirstId), program))

CompiledInput(program) ==
  LET comp == Compile(CompilerNew(FirstId), program)
  IN [bytecode |-> Bytecode(comp), nextId |-> comp.nextId]

RECURSIVE Repeat(_, _)
Repeat(ins, n) == IF n = 0 THEN <<>> ELSE ins \o Repeat(ins, n - 1)

\* let f = fn(p1 .. pn) { pn }; f(24, .. 24) with numArgs arguments: the
\* function is constant 0 and returns its last parameter (24 if it has none)
CallInput(numParameters, numArgs) ==
  [bytecode |->
     [Instructions |->
        Make(OpConstant, <<0>>) \o Make(OpSetGlobal, <<0>>)
        \o Make(OpGetGlobal, <<0>>) \o Repeat(Make(OpConstant, <<1>>), numArgs)
        \o Make(OpCall, <<numArgs>>) \o Make(OpPop, <<>>),
      Constants |->
        << CompiledFunction(
             (IF numParameters = 0 THEN Make(OpConstant, <<1>>)
              ELSE Make(OpGetLocal, <<numParameters - 1>>))
             \o Make(OpReturnValue, <<>>),
             numParameters, numParameters, FirstId),
           Integer(24, FirstId + 1) >>],
   nextId |-> FirstId + 2]

CallInputs ==
  [n \in 1..((MaxArgs + 1) * (MaxArgs + 1)) |->
     CallInput((n - 1) % (MaxArgs + 1), (n - 1) \div (MaxArgs + 1))]

\* fn() { 24 }() as the compiler tests expect it, the function made a closure
ClosureInput ==
  [bytecode |->
     [Instructions |->
        Make(OpClosure, <<1, 0>>) \o Make(OpCall, <<0>>) \o Make(OpPop, <<>>),
      Constants |->
        << Integer(24, FirstId),
           CompiledFunction(Make(OpConstant, <<0>>) \o Make(OpReturnValue, <<>>),
                            0, 0, FirstId + 1) >>],
   nextId |-> FirstId + 2]

\* the most locals a function of the frame inputs has besides its parameters
MaxLocals == 2

RECURSIVE Flatten(_)
Flatten(ss) == IF ss = <<>> THEN <<>> ELSE Head(ss) \o Flatten(Tail(ss))

\* the constants of the frame inputs: the function, 7, 99, the arguments
\* 10, 11, .. and the values 20, 21, .. of the locals
FrameConstants(fn) ==
  <<fn, Integer(7, FirstId + 1), Integer(99, FirstId + 2)>>
  \o [i \in 1..MaxArgs |-> Integer(9 + i, FirstId + 2 + i)]
  \o [j \in 1..MaxLocals |-> Integer(19 + j, FirstId + 2 + MaxArgs + j)]

\* 7; fn(p0 ..) { let l0 = 20; ..; p0; ..; l0; ..; 99 }(10, ..) as
\* TestFunctionCalls3 and TestLetStatementScopes expect it compiled: the
\* arguments are locals 0 .. numArgs - 1, the lets the locals above them;
\* without a value the body ends after the last let and returns by OpReturn
FrameInput(numArgs, numLets, withValue) ==
  [bytecode |->
     [Instructions |->
        Make(OpConstant, <<1>>) \o Make(OpConstant, <<0>>)
        \o Flatten([i \in 1..numArgs |-> Make(OpConstant, <<2 + i>>)])
        \o Make(OpCall, <<numArgs>>) \o Make(OpPop, <<>>) \o Make(OpPop, <<>>),
      Constants |->
        FrameConstants(CompiledFunction(
          Flatten([j \in 1..numLets |->
                     Make(OpConstant, <<2 + MaxArgs + j>>)
                     \o Make(OpSetLocal, <<numArgs + j - 1>>)])
          \o (IF withValue
                THEN Flatten([i \in 1..(numArgs + numLets) |->
                                Make(OpGetLocal, <<i - 1>>) \o Make(OpPop, <<>>)])
                     \o Make(OpConstant, <<2>>) \o Make(OpReturnValue, <<>>)
              ELSE Make(OpReturn, <<>>)),
          numArgs + numLets, numArgs, FirstId))],
   nextId |-> FirstId + 3 + MaxArgs + MaxLocals]

FrameInputs ==
  [n \in 1..((MaxArgs + 1) * (MaxLocals + 1) * 2) |->
     FrameInput((n - 1) % (MaxArgs + 1),
                ((n - 1) \div (MaxArgs + 1)) % (MaxLocals + 1),
                (n - 1) \div ((MaxArgs + 1) * (MaxLocals + 1)) = 0)]

VMInputs ==
  LET lines == SelectSeq(BasicLines \o IfLines, Compiles)
  IN [n \in 1..Len(lines) |-> CompiledInput(lines[n])]
     \o CallInputs \o <<ClosureInput>> \o FrameInputs

InitVM ==
  /\ \E n \in 1..Len(VMInputs) :
       /\ machine = VMNew(VMInputs[n].bytecode, VMInputs[n].nextId)
       /\ nextId = VMInputs[n].nextId + 1
  /\ input = <<>>
  /\ turn = 0
  /\ phase = "run"
  /\ constants = <<>>
  /\ symbolTable = NewSymbolTable
  /\ globals = <<>>
  /\ out = <<>>
  /\ popped = Nil

\* Run returns nil to its caller
RunReturnVM ==
  /\ phase = "run"
  /\ machine.status = "running"
  /\ ~Looping(machine)
  /\ machine' = [machine EXCEPT !.status = "done"]
  /\ phase' = "exited"
  /\ UNCHANGED <<input, turn, constants, symbolTable, globals, out, popped, nextId>>

NextVM == Instruction \/ DoUnhandled \/ RunReturnVM

SpecVM == InitVM /\ [][NextVM]_vars

(***************************************************************************)
(* package code driven through its own interface: Make an instruction,     *)
(* ReadOperands of its operand bytes, Make again from what was read.       *)
(***************************************************************************)
\* operands are taken within EdgeWidth of the ends of the range of their
\* width and of the step from one byte to two
EdgeWidth == 1

OperandValues(width) ==
  IF width = 2
    THEN (0..EdgeWidth) \cup ((255 - EdgeWidth)..(256 + EdgeWidth))
         \cup ((65535 - EdgeWidth)..65535)
    ELSE (0..EdgeWidth) \cup ((255 - EdgeWidth)..255)

\* the operand tuples of an opcode whose values fit its operand widths
OperandTuples(op) ==
  LET widths == definitions[op]
  IN CASE Len(widths) = 0 -> {<<>>}
       [] Len(widths) = 1 -> {<<a>> : a \in OperandValues(widths[1])}
       [] OTHER -> {<<a, b>> : a \in OperandValues(widths[1]),
                               b \in OperandValues(widths[2])}

InitCode ==
  /\ \E op \in DOMAIN definitions : \E operands \in OperandTuples(op) :
        input = [op |-> op, operands |-> operands]
  /\ turn = 0
  /\ phase = "make"
  /\ constants = <<>>
  /\ symbolTable = NewSymbolTable
  /\ globals = <<>>
  /\ machine = NoMachine
  /\ out = <<>>
  /\ popped = Nil
  /\ nextId = FirstId

\* instruction := Make(op, operands...)
MakeInstruction ==
  /\ phase = "make"
  /\ out' = <<Make(input.op, input.operands)>>
  /\ phase' = "read"
  /\ UNCHANGED <<input, turn, constants, symbolTable, globals, machine, popped, nextId>>

\* def, _ := Lookup(instruction[0]); ReadOperands(def, instruction[1:])
ReadInstruction ==
  /\ phase = "read"
  /\ Lookup(out[1][1]).ok
  /\ out' = Append(out, ReadOperands(Lookup(out[1][1]).OperandWidths, Tail(out[1])))
  /\ phase' = "remake"
  /\ UNCHANGED <<input, turn, constants, symbolTable, globals, machine, popped, nextId>>

\* Make(Opcode(instruction[0]), operandsRead...)
RemakeInstruction ==
  /\ phase = "remake"
  /\ out' = Append(out, Make(out[1][1], out[2].operands))
  /\ phase' = "made"
  /\ UNCHANGED <<input, turn, constants, symbolTable, globals, machine, popped, nextId>>

NextCode == MakeInstruction \/ ReadInstruction \/ RemakeInstruction

SpecCode == InitCode /\ [][NextCode]_vars

(***************************************************************************)
(* The builtins called directly, as a program that holds references to     *)
(* some objects calls them: the objects are in machine.heap, a reference   *)
(* is the address of an object, and out is the latest call and its result. *)
(***************************************************************************)
\* the number of arrays the calls may allocate
MaxNewArrays == 1

\* [], 1 and [1]
BuiltinHeap ==
  LET one == Integer(1, FirstId + 1)
  IN (FirstId :> Array(<<>>, FirstId)) @@ (FirstId + 1 :> one)
     @@ (FirstId + 2 :> Array(<<one>>, FirstId + 2))

\* the argument lists of up to two references
ArgumentLists(heap) ==
  {<<>>} \cup {<<a>> : a \in DOMAIN heap}
         \cup {<<a, b>> : a \in DOMAIN heap, b \in DOMAIN heap}

InitBuiltin ==
  /\ input = <<>>
  /\ turn = 0
  /\ phase = "builtins"
  /\ constants = <<>>
  /\ symbolTable = NewSymbolTable
  /\ globals = <<>>
  /\ machine = [NoMachine EXCEPT !.heap = BuiltinHeap]
  /\ out = <<>>
  /\ popped = Nil
  /\ nextId = FirstId + 3

\* result := GetBuiltinByName(name).Fn(args...); the memory after the call
\* has the array the call returned at its address
CallBuiltin ==
  /\ phase = "builtins"
  /\ \E i \in 1..Len(Builtins) : \E refs \in ArgumentLists(machine.heap) :
       LET args == [j \in 1..Len(refs) |-> machine.heap[refs[j]]]
           result == BuiltinFn(Builtins[i], args, nextId)
           new == result.type = ARRAY_OBJ /\ result.id = nextId
       IN /\ new => nextId < FirstId + 3 + MaxNewArrays
          /\ out' = <<[name |-> Builtins[i], args |-> refs, result |-> result]>>
          /\ machine' = [machine EXCEPT !.heap =
                           IF result.type = ARRAY_OBJ
                             THEN (result.id :> result) @@ @ ELSE @]
          /\ nextId' = IF new THEN nextId + 1 ELSE nextId
          /\ turn' = IF turn = 0 THEN 1 ELSE turn
  /\ UNCHANGED <<input, phase, constants, symbolTable, globals, popped>>

NextBuiltin == CallBuiltin

SpecBuiltin == InitBuiltin /\ [][NextBuiltin]_vars

(***************************************************************************)
(* The symbol table driven through its own interface: Define,              *)
(* DefineBuiltin, DefineFunctionName and Resolve on the table of the       *)
(* innermost scope, a new enclosed table as enterScope makes it, and the   *)
(* return to the outer table of leaveScope.                                *)
(***************************************************************************)
\* the number of calls made on the chain
MaxSymbolOps == 7
\* the number of tables of the chain, the global one included
MaxDepth == 4

SymbolNames == <<"a", "b">>

InitSymbols ==
  /\ input = <<>>
  /\ turn = 0
  /\ phase = "symbols"
  /\ constants = <<>>
  /\ symbolTable = <<NewSymbolTable>>
  /\ globals = <<>>
  /\ machine = NoMachine
  /\ out = <<>>
  /\ popped = Nil
  /\ nextId = FirstId

\* the call op has returned r
SymbolCall(op, name, r, ok) ==
  /\ phase = "symbols"
  /\ turn < MaxSymbolOps
  /\ turn' = turn + 1
  /\ symbolTable' = r.tabs
  /\ out' = <<[op |-> op, name |-> name, symbol |-> r.symbol, ok |-> ok]>>
  /\ UNCHANGED <<input, phase, constants, globals, machine, popped, nextId>>

CallDefine ==
  /\ phase = "symbols"
  /\ \E i \in 1..Len(SymbolNames) :
      SymbolCall("Define", SymbolNames[i], Define(symbolTable, SymbolNames[i]), TRUE)

CallDefineBuiltin ==
  /\ phase = "symbols"
  /\ \E i \in 1..Len(SymbolNames) :
      SymbolCall("DefineBuiltin", SymbolNames[i],
                 DefineBuiltin(symbolTable, i - 1, SymbolNames[i]), TRUE)

CallDefineFunctionName ==
  /\ phase = "symbols"
  /\ \E i \in 1..Len(SymbolNames) :
      SymbolCall("DefineFunctionName", SymbolNames[i],
                 DefineFunctionName(symbolTable, SymbolNames[i]), TRUE)

CallResolve ==
  /\ phase = "symbols"
  /\ \E i \in 1..Len(SymbolNames) :
      LET r == Resolve(symbolTable, SymbolNames[i])
      IN SymbolCall("Resolve", SymbolNames[i], r, r.ok)

\* c.symbolTable = NewEnclosedSymbolTable(c.symbolTable)
EnterScope ==
  /\ Len(symbolTable) < MaxDepth
  /\ SymbolCall("NewEnclosedSymbolTable", "",
                [tabs |-> NewEnclosedSymbolTable(symbolTable),
                 symbol |-> Symbol("", "", 0)], TRUE)

\* c.symbolTable = c.symbolTable.Outer
LeaveScope ==
  /\ Len(symbolTable) > 1
  /\ SymbolCall("Outer", "",
                [tabs |-> SubSeq(symbolTable, 1, Len(symbolTable) - 1),
                 symbol |-> Symbol("", "", 0)], TRUE)

NextSymbols ==
  \/ CallDefine
  \/ CallDefineBuiltin
  \/ CallDefineFunctionName
  \/ CallResolve
  \/ EnterScope
  \/ LeaveScope

SpecSymbols == InitSymbols /\ [][NextSymbols]_vars

(***************************************************************************)
(* SpecScopes: the compiler's scope stack driven as TestCompilerScopes     *)
(* drives it, by calls of emit, enterScope and leaveScope.  The compiler   *)
(* under test is held in machine; out is the history of the enterScope     *)
(* calls not yet left, each with the compiler as it was before the call    *)
(* and the bytes emitted in the scope it opened; input is what the last    *)
(* leaveScope returned.                                                    *)
(***************************************************************************)
MaxScopeOps == 5

compiler == machine

EmittedOps == <<<<OpAdd, <<>>>>, <<OpPop, <<>>>>, <<OpConstant, <<1>>>>>>

InitScopes ==
  /\ input = <<>>
  /\ turn = 0
  /\ phase = "scopes"
  /\ constants = <<>>
  /\ symbolTable = NewSymbolTable
  /\ globals = <<>>
  /\ machine = CompilerNew(FirstId)
  /\ out = <<>>
  /\ popped = Nil
  /\ nextId = FirstId

\* compiler.emit(op, operands...)
ScopeEmit ==
  /\ phase = "scopes"
  /\ turn < MaxScopeOps
  /\ \E i \in 1..Len(EmittedOps) :
       /\ compiler' = emit(compiler, EmittedOps[i][1], EmittedOps[i][2])
       /\ out' = IF out = <<>> THEN out
                 ELSE [out EXCEPT ![Len(out)].emitted =
                         @ \o Make(EmittedOps[i][1], EmittedOps[i][2])]
  /\ turn' = turn + 1
  /\ UNCHANGED <<input, phase, constants, symbolTable, globals, popped, nextId>>

\* compiler.enterScope()
ScopeEnter ==
  /\ phase = "scopes"
  /\ turn < MaxScopeOps
  /\ compiler' = enterScope(compiler)
  /\ out' = Append(out, [before |-> compiler, emitted |-> <<>>])
  /\ turn' = turn + 1
  /\ UNCHANGED <<input, phase, constants, symbolTable, globals, popped, nextId>>

\* instructions := compiler.leaveScope()
ScopeLeave ==
  /\ phase = "scopes"
  /\ turn < MaxScopeOps
  /\ compiler.scopeIndex > 0
  /\ input' = currentInstructions(compiler)
  /\ compiler' = leaveScope(compiler)
  /\ out' = SubSeq(out, 1, Len(out) - 1)
  /\ turn' = turn + 1
  /\ UNCHANGED <<phase, constants, symbolTable, globals, popped, nextId>>

NextScopes ==
  \/ ScopeEmit
  \/ ScopeEnter
  \/ ScopeLeave

SpecScopes == InitScopes /\ [][NextScopes]_vars

(***************************************************************************)
(* Instructions.String as the loop it is: i is held in turn, the buffer    *)
(* out gets one entry for each Fprintf, and input is the byte sequence.    *)
(***************************************************************************)
MaxStringLen == 3
MaxErrorLines == 2

UndefinedOpcode == OpCurrentClosure + 1

StringBytes == <<OpConstant, OpAdd, OpGetLocal, OpClosure, UndefinedOpcode>>

RECURSIVE ByteSequences(_)
ByteSequences(n) ==
  IF n = 0 THEN {<<>>}
  ELSE LET shorter == ByteSequences(n - 1)
       IN shorter \cup {Append(ins, StringBytes[b]) :
                          ins \in shorter, b \in 1..Len(StringBytes)}

InitString ==
  /\ input \in ByteSequences(MaxStringLen)
  /\ turn = 0
  /\ phase = "string"
  /\ constants = <<>>
  /\ symbolTable = NewSymbolTable
  /\ globals = <<>>
  /\ machine = NoMachine
  /\ out = <<>>
  /\ popped = Nil
  /\ nextId = FirstId

\* Lookup fails: the error is written and the loop continues with the same
\* i.  The buffer grows without bound; the model stops following it after
\* MaxErrorLines lines.
StringError ==
  /\ phase = "string"
  /\ turn < Len(input)
  /\ ~Lookup(input[turn + 1]).ok
  /\ Len(out) < MaxErrorLines
  /\ out' = Append(out, [i |-> turn, text |-> "ERROR: opcode undefined",
                         operands |-> <<input[turn + 1]>>])
  /\ UNCHANGED <<input, turn, phase, constants, symbolTable, globals, machine,
                 popped, nextId>>

\* Lookup succeeds: ReadOperands of ins[i+1:], one line, i += 1 + read.
\* ReadUint16 and ReadUint8 of a slice that is too short panic.
StringInstruction ==
  /\ phase = "string"
  /\ turn < Len(input)
  /\ Lookup(input[turn + 1]).ok
  /\ LET widths == Lookup(input[turn + 1]).OperandWidths
         rest == SubSeq(input, turn + 2, Len(input))
     IN IF Len(rest) < SumSeq(widths)
          THEN /\ phase' = "crashed"
               /\ UNCHANGED <<turn, out>>
          ELSE LET r == ReadOperands(widths, rest)
               IN /\ out' = Append(out, [i |-> turn, text |-> "instruction",
                                         operands |-> <<input[turn + 1]>> \o r.operands])
                  /\ turn' = turn + 1 + r.offset
                  /\ phase' = phase
  /\ UNCHANGED <<input, constants, symbolTable, globals, machine, popped, nextId>>

\* i < len(ins) is false: return out.String()
StringReturn ==
  /\ phase = "string"
  /\ turn >= Len(input)
  /\ phase' = "returned"
  /\ UNCHANGED <<input, turn, constants, symbolTable, globals, machine, out,
                 popped, nextId>>

NextString == StringError \/ StringInstruction \/ StringReturn

SpecString == InitString /\ [][NextString]_vars

(***************************************************************************)
(* SpecEmit: Compile called on single nodes by a compiler that has already *)
(* compiled much: its pool, the definitions of its symbol table or its     *)
(* instructions are near the largest value an operand of the width can     *)
(* hold.  The compiler is held in machine, the node compiled last in out.  *)
(***************************************************************************)
\* sizes within EdgeWidth of 0 and of the first value an operand of the
\* width cannot hold
Sizes(width) ==
  (0..EdgeWidth) \cup
  (IF width = 2 THEN (65536 - EdgeWidth)..(65536 + EdgeWidth)
   ELSE (256 - EdgeWidth)..(256 + EdgeWidth))

\* NewWithState with the pool of n integer literals
AfterLiterals(n) ==
  NewWithState(NewSymbolTable, [i \in 1..n |-> Integer(1, FirstId + i - 1)],
               FirstId + n)

\* the table after n statements  let a = true;  at top level
TableAfterLets(n, scope) ==
  [store |-> IF n = 0 THEN EmptyMap ELSE ("a" :> Symbol("a", scope, n - 1)),
   numDefinitions |-> n, FreeSymbols |-> <<>>]

\* NewWithState with the symbol table n statements  let a = true;  leave
AfterGlobalLets(n) == NewWithState(TableAfterLets(n, GlobalScope), <<>>, FirstId)

\* the compiler inside  fn() {  after n statements  let a = true;
AfterLocalLets(n) ==
  LET c == enterScope(CompilerNew(FirstId))
  IN [c EXCEPT
        !.symbolTable[2] = TableAfterLets(n, LocalScope),
        !.scopes[2] =
          IF n = 0 THEN CompilationScope
          ELSE [instructions |->
                  [i \in 1..(3 * n) |->
                     CASE i % 3 = 1 -> OpTrue
                       [] i % 3 = 2 -> OpSetLocal
                       [] OTHER -> ((i \div 3) - 1) % 256],
                lastInstruction |-> EmittedInstruction(OpSetLocal, 3 * n - 2),
                previousInstruction |-> EmittedInstruction(OpTrue, 3 * n - 3)]]

\* the compiler after n statements  true;
AfterStatements(n) ==
  LET c == CompilerNew(FirstId)
  IN IF n = 0 THEN c
     ELSE [c EXCEPT !.scopes[1] =
             [instructions |-> [i \in 1..(2 * n) |-> IF i % 2 = 1 THEN OpTrue ELSE OpPop],
              lastInstruction |-> EmittedInstruction(OpPop, 2 * n - 1),
              previousInstruction |-> EmittedInstruction(OpTrue, 2 * n - 2)]]

\* if (true) { true }
EmittedIf ==
  IfExpression(Boolean(TRUE), BlockStatement(<<Stmt(Boolean(TRUE))>>), NoNode)

\* the compiler the node is given to: input names what it has compiled
EmitStart ==
  CASE input.made = "literals" -> AfterLiterals(input.n)
    [] input.made = "global lets" -> AfterGlobalLets(input.n)
    [] input.made = "local lets" -> AfterLocalLets(input.n)
    [] OTHER -> AfterStatements(input.n)

\* what the properties look at in a compiler: the lengths of its
\* instructions and of its pool, the number of definitions of its current
\* table, and what the name a resolves to
EmitState(c) ==
  [length |-> Len(currentInstructions(c)),
   constants |-> Len(c.constants),
   numDefinitions |-> c.symbolTable[Len(c.symbolTable)].numDefinitions,
   resolved |-> Resolve(c.symbolTable, "a")]

\* the operand of the instruction the compiler emitted last, as ReadOperands
\* decodes it
LastOperand(c) ==
  LET ins == currentInstructions(c)
      pos == c.scopes[c.scopeIndex + 1].lastInstruction.Position
  IN CASE definitions[ins[pos + 1]] = <<2>> -> ReadUint16(ins, pos + 1)
       [] definitions[ins[pos + 1]] = <<1>> -> ReadUint8(ins, pos + 1)
       [] OTHER -> -1

InitEmit ==
  /\ \/ \E n \in Sizes(2) : input = [made |-> "literals", n |-> n]
     \/ \E n \in Sizes(2) : input = [made |-> "global lets", n |-> n]
     \/ \E n \in Sizes(1) : input = [made |-> "local lets", n |-> n]
     \/ \E n \in Sizes(2) : input = [made |-> "statements", n |-> (n + 1) \div 2]
  /\ turn = 0
  /\ phase = "emit"
  /\ constants = <<>>
  /\ symbolTable = NewSymbolTable
  /\ globals = <<>>
  /\ machine = NoMachine
  /\ out = <<>>
  /\ popped = Nil
  /\ nextId = FirstId

\* c.Compile(node); machine keeps the compiler before and after the call as
\* EmitState shows it, the bytes the call appended and the operand of the
\* last instruction
EmitNode(before, node) ==
  /\ turn = 0
  /\ turn' = 1
  /\ out' = <<node>>
  /\ \E after \in {Compile(before, node)} :
       machine' = [before |-> EmitState(before),
                   after |-> EmitState(after),
                   emitted |-> SubSeq(currentInstructions(after),
                                      Len(currentInstructions(before)) + 1,
                                      Len(currentInstructions(after))),
                   operand |-> LastOperand(after)]
  /\ UNCHANGED <<input, phase, constants, symbolTable, globals, popped, nextId>>

EmitIntegerLiteral ==
  /\ phase = "emit"
  /\ \E c \in {EmitStart} : EmitNode(c, IntegerLiteral(1))

EmitStringLiteral ==
  /\ phase = "emit"
  /\ \E c \in {EmitStart} : EmitNode(c, StringLiteral("s"))

EmitLetStatement ==
  /\ phase = "emit"
  /\ \E c \in {EmitStart} :
       \E i \in 1..Len(SymbolNames) : EmitNode(c, LetStatement(SymbolNames[i], Boolean(TRUE)))

EmitIdentifier ==
  /\ phase = "emit"
  /\ \E c \in {EmitStart} :
       /\ Resolve(c.symbolTable, "a").ok
       /\ EmitNode(c, Identifier("a"))

EmitArrayLiteral ==
  /\ phase = "emit"
  /\ \E c \in {EmitStart} :
       \E n \in 0..MaxArgs : EmitNode(c, ArrayLiteral([i \in 1..n |-> Boolean(TRUE)]))

EmitHashLiteral ==
  /\ phase = "emit"
  /\ \E c \in {EmitStart} :
       \E n \in 0..1 :
         EmitNode(c, HashLiteral([i \in 1..n |-> <<Boolean(TRUE), Boolean(FALSE)>>]))

EmitIfExpression ==
  /\ phase = "emit"
  /\ \E c \in {EmitStart} : EmitNode(c, EmittedIf)

NextEmit ==
  \/ EmitIntegerLiteral
  \/ EmitStringLiteral
  \/ EmitLetStatement
  \/ EmitIdentifier
  \/ EmitArrayLiteral
  \/ EmitHashLiteral
  \/ EmitIfExpression

SpecEmit == InitEmit /\ [][NextEmit]_vars

(***************************************************************************)
(* What the properties below speak of                                      *)
(***************************************************************************)
Statements(program) == IF program.k = "Program" THEN program.Statements ELSE <<>>

EndsInExpression(program) ==
  /\ Statements(program) # <<>>
  /\ Statements(program)[Len(Statements(program))].k = "ExpressionStatement"

HasExpressionStatement(program) ==
  \E i \in 1..Len(Statements(program)) :
     Statements(program)[i].k = "ExpressionStatement"

OnlyExpressionsAndLets(program) ==
  /\ program.k = "Program"
  /\ \A i \in 1..Len(program.Statements) :
        program.Statements[i].k \in {"ExpressionStatement", "LetStatement"}

\* the name the first statement of the line binds, "" if it binds none
LetName(program) ==
  IF Statements(program) # <<>> /\ Statements(program)[1].k = "LetStatement"
    THEN Statements(program)[1].Name ELSE ""

\* the line is one expression statement of the given kind of expression
IsLineOf(program, kind) ==
  /\ Len(Statements(program)) = 1
  /\ Statements(program)[1].k = "ExpressionStatement"
  /\ Statements(program)[1].Expression.k = kind

\* the lines of the session so far, as one program
RECURSIVE WholeProgram(_, _)
WholeProgram(lines, n) ==
  IF n = 0 THEN <<>>
  ELSE WholeProgram(lines, n - 1) \o Statements(lines[n])

\* an object without the identity of its allocation
RECURSIVE SameValue(_, _)
SameValue(a, b) ==
  /\ a.type = b.type
  /\ a.Value = b.Value
  /\ a.Str = b.Str
  /\ Len(a.Elements) = Len(b.Elements)
  /\ \A i \in 1..Len(a.Elements) : SameValue(a.Elements[i], b.Elements[i])

\* Run has returned nil for the line of this turn
RunReturned ==
  /\ turn >= 1
  /\ machine.status = "done"
  /\ \/ phase = "crashed"
     \/ Len(out) = turn /\ out[turn].kind = "value"

\* the opcodes of an instruction sequence, in order
RECURSIVE Opcodes(_, _)
Opcodes(ins, i) ==
  IF i >= Len(ins) \/ ~Lookup(ins[i + 1]).ok THEN <<>>
  ELSE <<ins[i + 1]>>
       \o Opcodes(ins, i + 1 + SumSeq(Lookup(ins[i + 1]).OperandWidths))

\* some function among the constants of the machine uses the opcode
FunctionUses(m, op) ==
  \E i \in 1..Len(m.constants) :
     /\ m.constants[i].type = COMPILED_FUNCTION_OBJ
     /\ \E j \in 1..Len(Opcodes(m.constants[i].Instructions, 0)) :
           Opcodes(m.constants[i].Instructions, 0)[j] = op

(***************************************************************************)
(* The language's own meaning of the expressions of the lines, operands    *)
(* left to right: [ok, type, Value, err].                                  *)
(***************************************************************************)
Val(type, value) == [ok |-> TRUE, type |-> type, Value |-> value, err |-> NoErr]
Err(e) == [ok |-> FALSE, type |-> "", Value |-> 0, err |-> e]
NullVal == Val(NULL_OBJ, 0)
BoolVal(b) == Val(BOOLEAN_OBJ, IF b THEN 1 ELSE 0)
Truthy(v) == ~(v.type = NULL_OBJ \/ (v.type = BOOLEAN_OBJ /\ v.Value = 0))

EvalInfix(operator, l, r) ==
  IF ~l.ok THEN l
  ELSE IF ~r.ok THEN r
  ELSE IF l.type = INTEGER_OBJ /\ r.type = INTEGER_OBJ
    THEN CASE operator = "+" -> Val(INTEGER_OBJ, l.Value + r.Value)
           [] operator = "-" -> Val(INTEGER_OBJ, l.Value - r.Value)
           [] operator = "*" -> Val(INTEGER_OBJ, l.Value * r.Value)
           [] operator = ">" -> BoolVal(l.Value > r.Value)
           [] operator = "<" -> BoolVal(l.Value < r.Value)
           [] operator = "==" -> BoolVal(l.Value = r.Value)
           [] operator = "!=" -> BoolVal(l.Value # r.Value)
           [] OTHER -> Err(<<"unknown integer operator: %d">>)
  ELSE IF operator \in {"+", "-", "*", "/"}
    THEN Err(<<"unsupported types for binary operation: %s %s", l.type, r.type>>)
  ELSE IF operator = "==" THEN BoolVal(l.type = r.type /\ l.Value = r.Value)
  ELSE IF operator = "!=" THEN BoolVal(~(l.type = r.type /\ l.Value = r.Value))
  ELSE Err(<<"unknown operator: %d (%s %s)", OpGreaterThan, l.type, r.type>>)

RECURSIVE EvalPure(_)
EvalPure(node) ==
  CASE node.k = "IntegerLiteral" -> Val(INTEGER_OBJ, node.Value)
    [] node.k = "Boolean" -> BoolVal(node.Value)
    [] node.k = "PrefixExpression" ->
         LET r == EvalPure(node.Right)
         IN IF ~r.ok THEN r
            ELSE IF node.Operator = "!" THEN BoolVal(~Truthy(r))
            ELSE IF r.type = INTEGER_OBJ THEN Val(INTEGER_OBJ, 0 - r.Value)
            ELSE Err(<<"unsupported type for negation: %s", r.type>>)
    [] node.k = "InfixExpression" ->
         EvalInfix(node.Operator, EvalPure(node.Left), EvalPure(node.Right))
    [] OTHER -> NullVal

\* the value of a block: that of its last statement if it is an expression
BlockValue(block) ==
  IF block.k = "nil" \/ block.Statements = <<>> THEN NullVal
  ELSE IF block.Statements[Len(block.Statements)].k # "ExpressionStatement" THEN NullVal
  ELSE EvalPure(block.Statements[Len(block.Statements)].Expression)

IfValue(ife) ==
  IF Truthy(EvalPure(ife.Condition)) THEN BlockValue(ife.Consequence)
  ELSE BlockValue(ife.Alternative)

\* the line of a run as what the REPL prints for it
Shown(v) ==
  IF v.ok THEN [kind |-> "value", type |-> v.type, Value |-> v.Value, err |-> NoErr]
  ELSE [kind |-> "Executing bytecode failed: %s", type |-> "", Value |-> 0, err |-> v.err]

Printed(o) ==
  IF o.kind = "value"
    THEN [kind |-> o.kind, type |-> o.val.type, Value |-> o.val.Value, err |-> NoErr]
  ELSE [kind |-> o.kind, type |-> "", Value |-> 0, err |-> o.err]

(***************************************************************************)
(* package executor: one program through a fresh compiler and a fresh      *)
(* machine, as what it prints                                              *)
(***************************************************************************)
Exec(program) ==
  IF program.k = "ParserErrors" THEN Output("parser errors", Nil, NoErr) ELSE
  LET comp == Compile(CompilerNew(FirstId), program)
  IN IF Failed(comp) THEN Output("Compilation failed: %s", Nil, comp.err) ELSE
  LET m == Run(VMNew(Bytecode(comp), comp.nextId))
  IN IF m.status = "panic" THEN Output("panic", Nil, m.err)
     ELSE IF m.status = "error" THEN Output("Executing bytecode failed: %s", Nil, m.err)
     ELSE IF ~InStack(m.sp) \/ LastPoppedStackElem(m).type = "nil"
       THEN Output("panic", Nil, <<NilDereference>>)
     ELSE Output("value", LastPoppedStackElem(m), NoErr)

(***************************************************************************)
(* Properties                                                              *)
(***************************************************************************)

\* C1: what the REPL prints for a line is what the lines of the session up
\* to it print when run together as one program: at the prompt after a turn
\* whose line ends in an expression statement, all turns so far having
\* printed a value, the value printed is that of the whole program.
C1_SessionAsOneProgram ==
  (/\ phase = "prompt"
   /\ turn >= 1
   /\ Len(out) = turn
   /\ \A i \in 1..turn : out[i].kind = "value"
   /\ EndsInExpression(input[turn]))
  => LET whole == Exec(Program(WholeProgram(input, turn)))
     IN /\ whole.kind = "value"
        /\ SameValue(whole.val, out[turn].val)

\* C2: when Run has returned without error for a program whose top-level
\* statements are expression statements and let statements, the stack is
\* empty (sp = 0), and if the last statement is an expression statement its
\* value is the one still in slot 0.
C2_StackEmptyAfterRun ==
  (RunReturned /\ OnlyExpressionsAndLets(input[turn]))
  => /\ machine.sp = 0
     /\ EndsInExpression(input[turn]) => StackGet(machine, 0) = popped

\* C3: an if expression leaves exactly one value on the stack: that of the
\* last expression statement of the block it executes, and Null if that
\* block is empty, ends in another statement, or the condition is not truthy
\* and there is no alternative.  Seen where the main program is about to
\* execute the OpPop that ends the line's only statement, the if expression.
C3_IfLeavesOneValue ==
  (/\ phase = "run"
   /\ turn >= 1
   /\ IsLineOf(input[turn], "IfExpression")
   /\ machine.status = "running"
   /\ machine.frameIndex = 1
   /\ currentFrame(machine).ip + 2 = Len(FrameInstructions(machine, currentFrame(machine))))
  => LET v == IfValue(Statements(input[turn])[1].Expression)
     IN /\ machine.sp = 1
        /\ StackGet(machine, 0).type = v.type
        /\ StackGet(machine, 0).Value = v.Value

\* C4: a function literal that uses a variable of an enclosing function is
\* compiled to a closure that reads it with OpGetFree, and calling it gives
\* the captured value: newAdder(2)(3) prints 5, and the function made by mk
\* returns the 1 that mk bound to a.
C4_ClosuresCapture ==
  (turn = 1 /\ LetName(input[1]) \in {"newAdder", "mk"})
  => /\ phase = "run" => FunctionUses(machine, OpGetFree)
     /\ Len(out) = 1 =>
          /\ out[1].kind = "value"
          /\ IF LetName(input[1]) = "newAdder"
               THEN SameValue(out[1].val, Integer(5, 0))
             ELSE SameValue(out[1].val, Array(<<Integer(7, 0), Integer(1, 0)>>, 0))

\* C5: a function bound by let can call itself by its name: the line
\* compiles, and the reference is compiled to OpCurrentClosure.
C5_SelfReference ==
  (turn = 1 /\ LetName(input[1]) \in {"countDown", "loop"})
  => /\ phase = "run" => FunctionUses(machine, OpCurrentClosure)
     /\ Len(out) = 1 => out[1].kind # "Compilation failed: %s"

\* the line is l < r; and the REPL has printed its outcome
LessLinePrinted ==
  /\ phase = "prompt"
  /\ turn = 1
  /\ Len(out) = 1
  /\ IsLineOf(input[1], "InfixExpression")
  /\ Statements(input[1])[1].Expression.Operator = "<"

LessLeft == EvalPure(Statements(input[1])[1].Expression.Left)
LessRight == EvalPure(Statements(input[1])[1].Expression.Right)

\* C6 (as the code has it): a < b prints what b > a prints, b evaluated
\* before a: the Boolean a < b when both are integers, the error of the one
\* operand that fails, the error of b when both fail, and for other operands
\* the comparison's error naming the type of b before the type of a.
C6_LessIsSwappedGreater ==
  LessLinePrinted => Printed(out[1]) = Shown(EvalInfix(">", LessRight, LessLeft))

C6_Witness ==
  /\ LessLinePrinted
  /\ LessLeft.ok /\ LessRight.ok
  /\ LessLeft.type = INTEGER_OBJ /\ LessRight.type = INTEGER_OBJ
  /\ LessLeft.Value < LessRight.Value
  /\ out[1].kind = "value"
  /\ out[1].val = True

\* C6 (as stated): a < b prints what evaluating a, then b, and comparing
\* them with a less-than of the machine's own would print: the same value,
\* and the same error when an operand fails (the first to fail, a before b).
C6_SameAsDirectLess ==
  LessLinePrinted =>
    LET direct == Shown(EvalInfix("<", LessLeft, LessRight))
    IN IF direct.kind = "value" \/ ~LessLeft.ok \/ ~LessRight.ok
         THEN Printed(out[1]) = direct
       ELSE Printed(out[1]).kind = direct.kind

\* C7: the stack pointer never passes the end of the stack: an instruction
\* that would take it past StackSize (a push, or a call reserving the
\* callee's locals) ends Run with "stack overflow" instead.
C7_StackWithinBounds ==
  machine.status # "none" =>
    /\ machine.sp <= StackSize
    /\ \A slot \in DOMAIN machine.stack : slot <= StackSize

\* the machine is about to execute OpCall on a function object
AtCallOf(numArgs) ==
  /\ Decodes({OpCall})
  /\ HasOperand(AddIp(machine, 1), 1)
  /\ Operand(AddIp(machine, 1), 1) = numArgs
  /\ InStack(machine.sp - numArgs - 1)
  /\ StackGet(machine, machine.sp - numArgs - 1).type = COMPILED_FUNCTION_OBJ

\* C8: a call made when MaxFrames frames are active ends Run with the error
\* "stack overflow"; it does not write past the end of the frame array.
C8_FrameOverflowIsAnError ==
  [][ (/\ machine.frameIndex = MaxFrames
       /\ \E numArgs \in 0..MaxArgs :
            /\ AtCallOf(numArgs)
            /\ StackGet(machine, machine.sp - numArgs - 1).NumParameters = numArgs)
      => (machine'.status = "error" /\ machine'.err = <<"stack overflow">>) ]_vars

\* C9: OpCall with an argument count other than the callee's NumParameters
\* ends Run with "wrong number of arguments, expected N, actual M", N the
\* callee's NumParameters and M the argument count; no frame is pushed and
\* the stack and its pointer stay as they were.
C9_WrongNumberOfArguments ==
  [][ \A numArgs \in 0..MaxArgs :
        (/\ AtCallOf(numArgs)
         /\ StackGet(machine, machine.sp - numArgs - 1).NumParameters # numArgs)
        => /\ machine'.status = "error"
           /\ machine'.err =
                << "wrong number of arguments, expected %d, actual %d",
                   StackGet(machine, machine.sp - numArgs - 1).NumParameters,
                   numArgs >>
           /\ machine'.frameIndex = machine.frameIndex
           /\ machine'.frames = [machine.frames EXCEPT
                                   ![machine.frameIndex].ip = @ + 2]
           /\ machine'.sp = machine.sp
           /\ machine'.stack = machine.stack ]_vars

C9_Witness ==
  /\ machine.status = "error"
  /\ machine.err[1] = "wrong number of arguments, expected %d, actual %d"
  /\ machine.err[2] = 2
  /\ machine.err[3] = 1
  /\ machine.frameIndex = 1
  /\ machine.sp = 2

\* C10 (as the code has it): when Run has returned without error for a
\* program whose last statement is an expression statement, stack[sp] is
\* that statement's value, the one the last OpPop of the program removed.
C10_LastPoppedIsLastStatement ==
  (RunReturned /\ EndsInExpression(input[turn]))
  => /\ InStack(machine.sp)
     /\ LastPoppedStackElem(machine) = popped
     /\ phase = "prompt" => out[turn].val = popped

C10_Witness ==
  /\ RunReturned
  /\ phase = "prompt"
  /\ turn = 1
  /\ Len(Statements(input[1])) = 1
  /\ IsLineOf(input[1], "InfixExpression")
  /\ popped.type = INTEGER_OBJ
  /\ popped.Value = 7
  /\ LastPoppedStackElem(machine) = popped

\* C10 (as stated): when Run has returned without error, stack[sp] is the
\* value of the program's final expression statement, whatever follows it.
C10_LastPoppedIsLastExpression ==
  (RunReturned /\ HasExpressionStatement(input[turn]))
  => /\ InStack(machine.sp)
     /\ LastPoppedStackElem(machine) = popped

\* C11: whatever a line yields (parser errors, a compile error, a run-time
\* error or a value, an empty line and a line of lets included), the process
\* is at the prompt, running the line, or has left the loop at the end of
\* the input: no turn ends the loop.
C11_NoTurnEndsTheLoop ==
  /\ phase \in {"prompt", "run", "exited"}
  /\ phase = "exited" => turn = Len(input)

\* the pool of a later turn keeps every constant of an earlier one at its index
Extends(later, earlier) ==
  /\ Len(later) >= Len(earlier)
  /\ \A i \in 1..Len(earlier) : later[i] = earlier[i]

\* C12: the constant pool Start hands to the compiler of the next turn
\* extends the pool the compiler of the latest compiled turn produced (the
\* pool its machine ran with): the length does not decrease and no index
\* changes its value.
C12_ConstantPoolExtends ==
  (phase = "prompt" /\ machine.status \in {"done", "failed"})
  => Extends(constants, machine.constants)

\* the offsets at which the instructions of a sequence start
RECURSIVE InstructionStarts(_, _)
InstructionStarts(ins, i) ==
  IF i >= Len(ins) \/ ~Lookup(ins[i + 1]).ok THEN {}
  ELSE {i} \cup InstructionStarts(ins, i + 1 + SumSeq(Lookup(ins[i + 1]).OperandWidths))

\* every OpJumpNotTruthy of the sequence targets the instruction that follows
\* an OpJump which lies after it (the start of the alternative), and that
\* OpJump, like every other, targets the start of a later instruction, at or
\* after the start of the alternative
JumpsOnBoundaries(ins) ==
  LET starts == InstructionStarts(ins, 0)
  IN \A p \in starts :
       /\ ins[p + 1] = OpJump =>
            /\ ReadUint16(ins, p + 1) \in starts
            /\ ReadUint16(ins, p + 1) >= p + 3
       /\ ins[p + 1] = OpJumpNotTruthy =>
            LET target == ReadUint16(ins, p + 1)
            IN /\ target \in starts
               /\ target - 3 \in starts
               /\ target - 3 >= p + 3
               /\ ins[target - 2] = OpJump
               /\ ReadUint16(ins, target - 2) >= target

\* the instructions the machine was created with, and those of the
\* functions among its constants
MainInstructions(m) == Deref(m.heap, m.frames[1].fn).Instructions

\* the length of the code of a block inside an if expression: that of its
\* statements without the OpPop of a last expression statement
BlockLength(stmts) ==
  Len(Bytecode(Compile(CompilerNew(FirstId), Program(stmts))).Instructions)
  - (IF EndsInExpression(Program(stmts)) THEN 1 ELSE 0)

C14_MakeReadRoundTrip ==
  /\ phase \in {"read", "remake", "made"} =>
        /\ Len(out[1]) = 1 + SumSeq(definitions[input.op])
        /\ out[1][1] = input.op
  /\ phase \in {"remake", "made"} =>
        /\ out[2].operands = input.operands
        /\ out[2].offset = SumSeq(definitions[input.op])
  /\ phase = "made" => out[3] = out[1]

C14_Witness ==
  /\ phase = "made"
  /\ input.op = OpClosure
  /\ input.operands = <<65535, 255>>
  /\ out[1] = <<OpClosure, 255, 255, 255>>
  /\ out[2] = [operands |-> <<65535, 255>>, offset |-> 3]
  /\ out[3] = out[1]

\* the operands of the comparison the machine is about to execute
ComparisonLeft == StackGet(machine, machine.sp - 2)
ComparisonRight == StackGet(machine, machine.sp - 1)

\* two objects of the same type are equal: integers and strings by value,
\* arrays and hashes when they are the same object
EqualAsClaimed(left, right) ==
  CASE left.type = INTEGER_OBJ -> left.Value = right.Value
    [] left.type = STRING_OBJ -> left.Str = right.Str
    [] OTHER -> left.id = right.id

\* C15: OpEqual and OpNotEqual compare two integers by value and two strings
\* by value (two String objects holding the same bytes are equal), and two
\* arrays or two hashes are equal only when they are the same object.
C15_EqualityByValue ==
  [][ (/\ Decodes({OpEqual, OpNotEqual})
       /\ machine.sp >= 2
       /\ ComparisonLeft.type = ComparisonRight.type
       /\ ComparisonLeft.type \in {INTEGER_OBJ, STRING_OBJ, ARRAY_OBJ, HASH_OBJ})
      => /\ machine'.status = "running"
         /\ machine'.sp = machine.sp - 1
         /\ StackTop(machine') =
              nativeBoolToBooleanObject(
                (NextOp(machine) = OpEqual)
                  = EqualAsClaimed(ComparisonLeft, ComparisonRight)) ]_vars

\* the object is one of the two values that are not truthy
IsFalseOrNull(o) == o.id \in {False.id, Null.id}

\* C16: truthiness is the same predicate in both places it is used:
\* OpJumpNotTruthy pops a value and jumps exactly when it is False or Null,
\* and OpBang replaces exactly those two values by True and every other
\* value (the integer 0, strings, arrays and hashes included) by False.
C16_OneTruthiness ==
  [][ (/\ Decodes({OpJumpNotTruthy, OpBang})
       /\ machine.sp >= 1
       /\ StackTop(machine).type # "nil")
      => /\ machine'.status = "running"
         /\ IF NextOp(machine) = OpBang
              THEN /\ machine'.sp = machine.sp
                   /\ StackTop(machine') =
                        nativeBoolToBooleanObject(IsFalseOrNull(StackTop(machine)))
              ELSE /\ machine'.sp = machine.sp - 1
                   /\ currentFrame(machine').ip =
                        IF IsFalseOrNull(StackTop(machine))
                          THEN Operand(AddIp(machine, 1), 2) - 1
                          ELSE currentFrame(machine).ip + 3 ]_vars

\* if (0) has taken the consequence
C16_Witness ==
  /\ turn = 1
  /\ LetName(input[1]) = "t"
  /\ Statements(input[1])[1].Value.Condition.k = "IntegerLiteral"
  /\ Statements(input[1])[1].Value.Condition.Value = 0
  /\ phase = "prompt"
  /\ Len(out) = 1
  /\ out[1].kind = "value"
  /\ out[1].val.Value = 10

\* the line is one call of a builtin by its name
IsBuiltinCall(program) ==
  /\ IsLineOf(program, "CallExpression")
  /\ Statements(program)[1].Expression.Function.k = "Identifier"
  /\ \E i \in 1..Len(Builtins) :
        Statements(program)[1].Expression.Function.Value = Builtins[i]

\* the call has a wrong number of arguments or (the arguments of the lines
\* being literals) an integer where an array or a string is required
IsBuiltinMisuse(program) ==
  /\ IsBuiltinCall(program)
  /\ LET call == Statements(program)[1].Expression
         name == call.Function.Value
         n == Len(call.Arguments)
     IN /\ name # "puts"
        /\ \/ n # (IF name = "push" THEN 2 ELSE 1)
           \/ call.Arguments[1].k = "IntegerLiteral"

\* C17: a call of a builtin with a wrong number of arguments or an argument
\* of a wrong type does not end the run: the call leaves an Error object as
\* its value in place of the builtin and the arguments, Run goes on with the
\* next instruction (the OpPop of the statement, after which sp is 0 again),
\* and the Error is what the turn prints.
C17_BuiltinErrorIsAValue ==
  (turn >= 1 /\ IsBuiltinMisuse(input[turn]) /\ phase # "run")
  => /\ phase = "prompt"
     /\ Len(out) = turn
     /\ out[turn].kind = "value"
     /\ out[turn].val.type = ERROR_OBJ
     /\ machine.status = "done"
     /\ machine.sp = 0

\* C19: in every compilation (each turn of the REPL, and Exec of a script)
\* len, puts, first, last, rest and push resolve to symbols of BuiltinScope
\* with the indices 0 to 5 of the Builtins table, and defining them takes
\* no global index: no global is defined before the first let.
C19_BuiltinsAreDefined ==
  /\ turn = 0 => symbolTable.numDefinitions = 0
  /\ turn >= 1 =>
        \A i \in 1..Len(Builtins) :
          LET r == Resolve(<<symbolTable>>, Builtins[i])
          IN /\ r.ok
             /\ r.symbol.Scope = BuiltinScope
             /\ r.symbol.Index = i - 1
  /\ (turn >= 1 /\ IsBuiltinCall(input[turn]) /\ Len(out) = turn)
       => /\ out[turn].kind # "Compilation failed: %s"
          /\ Exec(input[turn]).kind # "Compilation failed: %s"

\* the latest call was push or rest with an array as its first argument and
\* the right number of arguments
PushOrRestOfArray ==
  /\ phase = "builtins"
  /\ Len(out) = 1
  /\ out[1].name \in {"push", "rest"}
  /\ Len(out[1].args) = (IF out[1].name = "push" THEN 2 ELSE 1)
  /\ machine.heap[out[1].args[1]].type = ARRAY_OBJ

\* C18 (as the code has it): push and rest leave every object that existed
\* before the call as it was, the argument array included, so whoever holds
\* a reference to it sees the old elements after any sequence of calls; push
\* returns a newly allocated array (the elements of the argument and then
\* the new one), rest of an array that is not empty returns a newly
\* allocated array (the elements but the first), and rest of an empty array
\* returns nil.
C18_PushAndRestCopy ==
  [][ phase = "builtins" =>
        /\ \A ref \in DOMAIN machine.heap : machine'.heap[ref] = machine.heap[ref]
        /\ PushOrRestOfArray' =>
              LET call == out'[1]
                  arg == machine.heap[call.args[1]]
              IN IF call.name = "rest" /\ arg.Elements = <<>>
                   THEN call.result = Nil
                 ELSE /\ call.result.type = ARRAY_OBJ
                      /\ call.result.id \notin DOMAIN machine.heap
                      /\ call.result.Elements =
                           IF call.name = "push"
                             THEN Append(arg.Elements, machine.heap[call.args[2]])
                             ELSE Tail(arg.Elements) ]_vars

\* push([1], [1]) has returned [1, [1]] at a new address and the argument is
\* still [1]
C18_Witness ==
  /\ PushOrRestOfArray
  /\ out[1].name = "push"
  /\ out[1].args = <<FirstId + 2, FirstId + 2>>
  /\ out[1].result.id = FirstId + 3
  /\ Len(out[1].result.Elements) = 2
  /\ out[1].result.Elements[2].id = FirstId + 2
  /\ Len(machine.heap[FirstId + 2].Elements) = 1

\* C18 (as stated): every call of push or rest on an array returns a newly
\* allocated array.
C18_AlwaysANewArray ==
  PushOrRestOfArray =>
    /\ out[1].result.type = ARRAY_OBJ
    /\ out[1].result.id = nextId - 1

\* the statements of the program up to the first one Compile fails at
UpToFirstFailure(start, program) ==
  LET failing == {k \in 1..Len(program.Statements) :
                    Failed(Compile(start, Program(SubSeq(program.Statements, 1, k))))}
  IN SubSeq(program.Statements, 1, CHOOSE k \in failing : \A j \in failing : k <= j)

\* C20: Compile is first-to-fail.  When a node produces an error (an
\* identifier that does not resolve: "undefined variable X"; an infix && or
\* || or another operator without an opcode: "unknown operator X"), Compile
\* returns that one error and compiles no later statement: the compiler is
\* left as the statements up to the failing one leave it.  The REPL prints
\* the error and goes back to the prompt without a machine being made or
\* run, and Exec prints the same.
C20_FirstToFail ==
  [][ (phase = "prompt" /\ turn' = turn + 1 /\ input[turn'].k = "Program") =>
        LET program == input[turn']
            start == NewWithState(symbolTable, constants, nextId)
            comp == Compile(start, program)
        IN /\ \A n \in 1..Len(ErrorCases) :
                Compile(CompilerNew(FirstId), ErrorCases[n].program).err
                  = ErrorCases[n].err
           /\ Failed(comp) =>
                /\ comp = Compile(start, Program(UpToFirstFailure(start, program)))
                /\ Len(comp.err) = 2
                /\ comp.err[1] \in {"undefined variable %s", "unknown operator %s"}
                /\ out' = Append(out, Output("Compilation failed: %s", Nil, comp.err))
                /\ phase' = "prompt"
                /\ machine' = machine
                /\ globals' = globals
                /\ turn = 0 =>
                     Exec(program) = Output("Compilation failed: %s", Nil, comp.err) ]_vars

\* 1; x; 5; has been rejected for x, with the 1 allocated and the 5 not
C20_Witness ==
  /\ turn = 1
  /\ phase = "prompt"
  /\ Len(Statements(input[1])) = 3
  /\ Len(out) = 1
  /\ out[1].kind = "Compilation failed: %s"
  /\ out[1].err = <<"undefined variable %s", "x">>
  /\ machine.status = "none"
  /\ nextId = FirstId + 1

\* the orders a map of n pairs can be iterated in, as permutations
IterationOrders(n) ==
  {f \in [1..n -> 1..n] : \A i, j \in 1..n : f[i] = f[j] => i = j}

Reordered(pairs, f) == [i \in 1..Len(pairs) |-> pairs[f[i]]]

\* C21: compiling a hash literal gives the same instructions and the same
\* constants whatever order the map iterates its pairs in, also when two
\* keys have the same string form; the instructions end with OpHash and
\* twice the number of pairs.
C21_HashLiteralCompilesOneWay ==
  (turn = 1 /\ IsLineOf(input[1], "HashLiteral")) =>
    LET pairs == Statements(input[1])[1].Expression.Pairs
        compiled == Compile(CompilerNew(FirstId), input[1])
    IN /\ ~Failed(compiled)
       /\ \A f \in IterationOrders(Len(pairs)) :
            Bytecode(Compile(CompilerNew(FirstId), HashLine(Reordered(pairs, f))))
              = Bytecode(compiled)
       /\ LET ins == currentInstructions(compiled)
          IN SubSeq(ins, Len(ins) - 3, Len(ins))
               = Make(OpHash, <<2 * Len(pairs)>>) \o Make(OpPop, <<>>)

\* the machine is about to execute the return instruction op in the frame
\* of a function that was called
AtReturn(op) ==
  /\ Decodes({op})
  /\ machine.frameIndex > 1

CalleeOf(m) == Deref(m.heap, currentFrame(m).fn)

\* C22: OpReturnValue in the frame of a callee pops the frame and leaves sp
\* at the frame's base pointer, one above the slot the callee was called
\* from: that slot now holds the return value, and the slots of the
\* arguments and locals, base pointer + 0 .. NumLocals - 1, are all at or
\* above sp.
C22_ReturnValueDiscardsTheFrame ==
  [][ (AtReturn(OpReturnValue) /\ machine'.status = "running") =>
        LET frame == currentFrame(machine)
        IN /\ machine'.frameIndex = machine.frameIndex - 1
           /\ StackGet(machine, frame.basePointer - 1).id = frame.fn
           /\ machine'.sp = frame.basePointer
           /\ StackGet(machine', frame.basePointer - 1) = StackTop(machine)
           /\ \A i \in 0..(CalleeOf(machine).NumLocals - 1) :
                frame.basePointer + i >= machine'.sp ]_vars

\* 7; fn(p0, p1) { let l0 = 20; let l1 = 21; ..; 99 }(10, 11) has returned:
\* 99 is where the function was, above the 7, and the arguments and locals
\* are still in the slots above sp
C22_Witness ==
  /\ machine.status = "running"
  /\ machine.frameIndex = 1
  /\ machine.sp = 2
  /\ StackGet(machine, 0).Value = 7
  /\ StackGet(machine, 1).Value = 99
  /\ StackGet(machine, 2).Value = 10
  /\ StackGet(machine, 3).Value = 11
  /\ StackGet(machine, 4).Value = 20
  /\ StackGet(machine, 5).Value = 21

\* C23: OpReturn in the frame of a callee, whatever the number of its
\* arguments and locals, pops the frame and leaves sp at the frame's base
\* pointer, where OpReturnValue leaves it, with Null in the slot the callee
\* was called from.
C23_ReturnDiscardsTheFrame ==
  [][ (AtReturn(OpReturn) /\ machine'.status = "running") =>
        LET frame == currentFrame(machine)
        IN /\ machine'.frameIndex = machine.frameIndex - 1
           /\ machine'.sp = frame.basePointer
           /\ StackGet(machine', frame.basePointer - 1) = Null ]_vars

\* the machine runs one of the frame inputs
RunsFrameInput ==
  /\ Len(machine.constants) = 3 + MaxArgs + MaxLocals
  /\ machine.constants[3].Value = 99

\* the machine is about to execute OpGetLocal index in the frame of a callee
AtGetLocal(index) ==
  /\ AtReturn(OpGetLocal)
  /\ HasOperand(AddIp(machine, 1), 1)
  /\ Operand(AddIp(machine, 1), 1) = index

\* C24: OpCall numArgs on a function at stack[sp - numArgs - 1] pushes a
\* frame with ip = -1 and base pointer sp - numArgs and sets sp to base
\* pointer + NumLocals, the stack below untouched; in the callee
\* OpGetLocal i with i < NumLocals pushes the slot base pointer + i, a
\* reserved slot below sp, which for i < numArgs is the i-th argument of
\* the call and for the others the local defined above the arguments.
C24_CallFrame ==
  [][ /\ \A numArgs \in 0..MaxArgs :
           (AtCallOf(numArgs) /\ machine'.status = "running") =>
             LET fn == StackGet(machine, machine.sp - numArgs - 1)
                 frame == currentFrame(machine')
             IN /\ machine'.frameIndex = machine.frameIndex + 1
                /\ frame.fn = fn.id
                /\ frame.ip = -1
                /\ frame.basePointer = machine.sp - numArgs
                /\ machine'.sp = frame.basePointer + fn.NumLocals
                /\ machine'.stack = machine.stack
      /\ \A i \in 0..(MaxArgs + MaxLocals - 1) :
           (/\ AtGetLocal(i)
            /\ i < CalleeOf(machine).NumLocals
            /\ machine'.status = "running") =>
             LET frame == currentFrame(machine)
             IN /\ frame.basePointer + i < machine.sp
                /\ StackTop(machine') = StackGet(machine, frame.basePointer + i)
                /\ RunsFrameInput =>
                     StackTop(machine').Value =
                       IF i < CalleeOf(machine).NumParameters THEN 10 + i
                       ELSE 20 + i - CalleeOf(machine).NumParameters ]_vars

\* in 7; fn(p0, p1) { let l0 = 20; let l1 = 21; p0; p1; ..}(10, 11) the
\* callee has just read its second argument with OpGetLocal 1
C24_Witness ==
  /\ RunsFrameInput
  /\ machine.status = "running"
  /\ machine.frameIndex = 2
  /\ currentFrame(machine).basePointer = 2
  /\ CalleeOf(machine).NumParameters = 2
  /\ CalleeOf(machine).NumLocals = 4
  /\ machine.sp = 7
  /\ StackTop(machine).Value = 11
  /\ StackGet(machine, 2).Value = 10
  /\ StackGet(machine, 5).Value = 21

\* C25: a let statement defines its name before its value is compiled, so
\* a line that opens with let <name> = ... is never rejected with
\* "undefined variable <name>": a reference to the name from inside the
\* value (the body of a recursive function literal) resolves.
C25_LetDefinesTheNameFirst ==
  [][ (phase = "prompt" /\ turn' = turn + 1 /\ LetName(input[turn']) # "") =>
        (Len(out') = Len(out) + 1 =>
           out'[Len(out')].err # <<"undefined variable %s", LetName(input[turn'])>>) ]_vars

\* the innermost table of the chain that has the name in its store, 0 if
\* none has
NearestLevel(tabs, name) ==
  LET levels == {l \in 1..Len(tabs) : name \in DOMAIN tabs[l].store}
  IN IF levels = {} THEN 0 ELSE CHOOSE l \in levels : \A k \in levels : k <= l

\* a call of op on the chain has just returned
Returned(op) ==
  /\ phase = "symbols"
  /\ turn' = turn + 1
  /\ out'[1].op = op

\* C26: Resolve of a name whose nearest definition is a Local or Free
\* symbol of an outer table returns a Free symbol; every table from the one
\* above the definition to the innermost gets the symbol of the table below
\* it appended to its FreeSymbols and stores the name as Free with the
\* index of that entry; a second Resolve returns the same symbol and
\* changes nothing.  A name whose nearest definition is Global or Builtin is
\* returned as it is, from any depth, and no table changes.
C26_ResolvePromotes ==
  [][ Returned("Resolve") =>
        LET name == out'[1].name
            n == Len(symbolTable)
            d == NearestLevel(symbolTable, name)
        IN /\ (d > 0 /\ d < n
                /\ symbolTable[d].store[name].Scope \in {LocalScope, FreeScope}) =>
                /\ out'[1].ok
                /\ out'[1].symbol = symbolTable'[n].store[name]
                /\ \A l \in (d + 1)..n :
                     /\ symbolTable'[l].FreeSymbols =
                          Append(symbolTable[l].FreeSymbols,
                                 symbolTable'[l - 1].store[name])
                     /\ symbolTable'[l].store[name] =
                          Symbol(name, FreeScope, Len(symbolTable[l].FreeSymbols))
                /\ \A l \in 1..d : symbolTable'[l] = symbolTable[l]
                /\ Resolve(symbolTable', name) =
                     [tabs |-> symbolTable', symbol |-> out'[1].symbol, ok |-> TRUE]
           /\ (d > 0
                /\ symbolTable[d].store[name].Scope \in {GlobalScope, BuiltinScope}) =>
                /\ out'[1].ok
                /\ out'[1].symbol = symbolTable[d].store[name]
                /\ symbolTable' = symbolTable ]_vars

\* a is a local of the second table and has been resolved in the fourth:
\* the third captured the Local, the fourth the Free symbol of the third
C26_Witness ==
  /\ phase = "symbols"
  /\ Len(symbolTable) = 4
  /\ out # <<>>
  /\ out[1].op = "Resolve"
  /\ out[1].symbol = Symbol("a", FreeScope, 0)
  /\ "a" \in DOMAIN symbolTable[2].store
  /\ symbolTable[2].store["a"] = Symbol("a", LocalScope, 0)
  /\ symbolTable[3].FreeSymbols = <<Symbol("a", LocalScope, 0)>>
  /\ symbolTable[4].FreeSymbols = <<Symbol("a", FreeScope, 0)>>

\* the function whose instructions are ins loads a captured local and
\* makes a closure with one free variable of it right after
LoadsThenCloses(ins) ==
  LET capture == Make(OpGetLocal, <<0>>)
  IN \E at \in 1..Len(ins) :
       /\ at + Len(capture) + 3 <= Len(ins)
       /\ SubSeq(ins, at, at + Len(capture) - 1) = capture
       /\ ins[at + Len(capture)] = OpClosure
       /\ ins[at + Len(capture) + 3] = 1

\* C27: a function literal that uses a variable of the enclosing function
\* is compiled to the loads of the captured variables, in the order of
\* FreeSymbols, followed by OpClosure with their number: for
\*   let newAdder = fn(a) { fn(b) { a + b } }   and
\*   let mk = fn() { let a = 1; fn() { a } }
\* the enclosing function loads its local 0 and closes over it with
\* OpClosure <fn> 1, and the body reads it with OpGetFree 0.
C27_CaptureLoadsBeforeClosure ==
  (turn = 1 /\ LetName(input[1]) \in {"newAdder", "mk"}) =>
    LET comp == Compile(CompilerNew(FirstId), input[1])
    IN /\ ~Failed(comp)
       /\ \E i \in 1..Len(comp.constants) :
            /\ comp.constants[i].type = COMPILED_FUNCTION_OBJ
            /\ LoadsThenCloses(comp.constants[i].Instructions)
       /\ \E i \in 1..Len(comp.constants) :
            /\ comp.constants[i].type = COMPILED_FUNCTION_OBJ
            /\ \E j \in 1..Len(Opcodes(comp.constants[i].Instructions, 0)) :
                 Opcodes(comp.constants[i].Instructions, 0)[j] = OpGetFree

\* the symbols in the FreeSymbols lists of the chain all have a scope of
\* the set
CapturedScopesWithin(scopes) ==
  \A l \in 1..Len(symbolTable) : \A i \in 1..Len(symbolTable[l].FreeSymbols) :
     symbolTable[l].FreeSymbols[i].Scope \in scopes

\* C28 (as the code has it): every symbol in a FreeSymbols list has scope
\* Local, Free or Function, after every sequence of Define, DefineBuiltin,
\* DefineFunctionName and Resolve calls on a chain of enclosed tables.
C28_CapturedScopes ==
  phase = "symbols" => CapturedScopesWithin({LocalScope, FreeScope, FunctionScope})

\* the name a function was bound to has been resolved two tables further
\* in: the Function symbol is captured by the table in between
C28_Witness ==
  /\ phase = "symbols"
  /\ Len(symbolTable) = 3
  /\ out # <<>>
  /\ out[1].op = "Resolve"
  /\ "a" \in DOMAIN symbolTable[1].store
  /\ symbolTable[1].store["a"] = Symbol("a", FunctionScope, 0)
  /\ symbolTable[2].FreeSymbols = <<Symbol("a", FunctionScope, 0)>>
  /\ symbolTable[3].FreeSymbols = <<Symbol("a", FreeScope, 0)>>

\* C28 (as stated): every symbol in a FreeSymbols list has scope Local or
\* Free.
C28_CapturedLocalOrFree ==
  phase = "symbols" => CapturedScopesWithin({LocalScope, FreeScope})

\* the number of let statements among the statements
RECURSIVE CountLets(_)
CountLets(stmts) ==
  IF stmts = <<>> THEN 0
  ELSE (IF Head(stmts).k = "LetStatement" THEN 1 ELSE 0) + CountLets(Tail(stmts))

\* C29: numDefinitions grows by one with every Define and with nothing
\* else, so the NumLocals of a function the compiler accepts is the number
\* of its parameters plus the number of let statements of its body.
C29_NumLocalsCountsDefinitions ==
  (turn = 1 /\ IsLineOf(input[1], "FunctionLiteral")) =>
    LET literal == Statements(input[1])[1].Expression
        comp == Compile(CompilerNew(FirstId), input[1])
    IN ~Failed(comp) =>
         comp.constants[Len(comp.constants)].NumLocals
           = Len(literal.Parameters) + CountLets(literal.Body.Statements)

\* the last instruction of the sequence is a return
EndsInReturn(ins) ==
  /\ Opcodes(ins, 0) # <<>>
  /\ Opcodes(ins, 0)[Len(Opcodes(ins, 0))] \in {OpReturnValue, OpReturn}
  /\ ins[Len(ins)] \in {OpReturnValue, OpReturn}

\* the line is fn() { <body> }();
IsCalledFunctionLine(program) ==
  /\ IsLineOf(program, "CallExpression")
  /\ Statements(program)[1].Expression.Function.k = "FunctionLiteral"

\* what the claim has the instructions of a function be, given the
\* instructions its body compiles to as a block
WithReturn(body, ins) ==
  IF body # <<>> /\ body[Len(body)].k = "ExpressionStatement"
    THEN [ins EXCEPT ![Len(ins)] = OpReturnValue]
  ELSE IF body # <<>> /\ body[Len(body)].k = "ReturnStatement" THEN ins
  ELSE ins \o Make(OpReturn, <<>>)

\* C30: the instructions of every function the compiler produces end with
\* OpReturnValue or OpReturn: they are the instructions of the body with the
\* OpPop of a last expression statement replaced in place by OpReturnValue,
\* or with OpReturn appended when the body is empty or ends in a let; and
\* while Run is in the frame of a callee there is always a next instruction
\* to fetch.
C30_FunctionsEndInReturn ==
  /\ \A i \in 1..Len(machine.constants) :
       machine.constants[i].type = COMPILED_FUNCTION_OBJ
       => EndsInReturn(machine.constants[i].Instructions)
  /\ (turn = 1 /\ phase = "run" /\ IsCalledFunctionLine(input[1])) =>
       LET body == Statements(input[1])[1].Expression.Function.Body
           block == Compile(enterScope(CompilerNew(FirstId)), body)
       IN machine.constants[Len(machine.constants)].Instructions
            = WithReturn(body.Statements, currentInstructions(block))
  /\ (phase = "run" /\ machine.status = "running" /\ machine.frameIndex > 1)
       => Looping(machine)

\* the callee fn() { let a = 1; } is about to execute the OpReturn that
\* was appended to its body, its last instruction
C30_Witness ==
  /\ turn = 1
  /\ IsCalledFunctionLine(input[1])
  /\ AtReturn(OpReturn)
  /\ CalleeOf(machine).Instructions
       = Make(OpConstant, <<0>>) \o Make(OpSetLocal, <<0>>) \o Make(OpReturn, <<>>)
  /\ currentFrame(machine).ip + 2 = Len(CalleeOf(machine).Instructions)


\* C31: a leaveScope that matches an enterScope, whatever was emitted in
\* between, leaves scopeIndex, every enclosing scope (its instruction bytes
\* and its lastInstruction and previousInstruction) and the chain of symbol
\* tables as they were before the enterScope, and returns exactly the bytes
\* emitted in the scope it leaves
C31_LeaveScopeRestores ==
  [][(phase = "scopes" /\ Len(out') < Len(out)) =>
       LET entered == out[Len(out)]
       IN /\ compiler'.scopeIndex = entered.before.scopeIndex
          /\ compiler'.scopes = entered.before.scopes
          /\ compiler'.symbolTable = entered.before.symbolTable
          /\ input' = entered.emitted]_vars

\* a scope entered after an emission, emitted into, and left again
C31_Witness ==
  /\ phase = "scopes"
  /\ compiler.scopeIndex = 0
  /\ out = <<>>
  /\ input = Make(OpPop, <<>>)
  /\ currentInstructions(compiler) = Make(OpAdd, <<>>)
  /\ compiler.scopes[1].lastInstruction.Opcode = OpAdd


\* C32: at every step of Run on compiled bytecode the stack pointer is within
\* 0..StackSize and at least the main frame is on the frame stack
C32_StackAndFramesInBounds ==
  phase \in {"run", "crashed"} =>
    /\ 0 <= machine.sp
    /\ machine.sp <= StackSize
    /\ machine.frameIndex >= 1


\* C33: whenever Run is about to execute OpGetGlobal idx the globals slot
\* idx has been written, and whenever it is about to execute OpGetLocal idx
\* the slot base pointer + idx of the current frame has been written: the
\* object pushed is never the nil of an unset slot
C33_ReadsAreOfWrittenSlots ==
  /\ (Decodes({OpGetGlobal}) /\ HasOperand(AddIp(machine, 1), 2)) =>
       SlotGet(machine.globals, Operand(AddIp(machine, 1), 2)) # Nil
  /\ (Decodes({OpGetLocal}) /\ HasOperand(AddIp(machine, 1), 1)) =>
       StackGet(machine, currentFrame(machine).basePointer
                         + Operand(AddIp(machine, 1), 1)) # Nil


\* C34: Run ends a failing program by returning an error; it is never ended
\* by a run-time panic of the process, an integer division by zero included
C34_RunNeverPanics ==
  machine.status # "panic"


\* the slots 0 .. n - 1 of the stack hold the same objects after the step
StackBelowUnchanged(n) ==
  \A i \in 0..(n - 1) : SlotGet(machine'.stack, i) = SlotGet(machine.stack, i)

\* the frames 1 .. n are the same after the step: fn, ip and basePointer
FramesBelowUnchanged(n) ==
  \A j \in 1..n : machine'.frames[j] = machine.frames[j]

\* C35: a step Run takes in the frame of a callee writes no stack slot below
\* the slot the callee was called from and changes no frame below the
\* callee's; a return leaves the caller's frame current with its ip on the
\* operand of the OpCall, so that the caller goes on with the instruction
\* after it; and the slot a callee is called from is never below the base
\* pointer of its caller, so the caller's locals and pending operands are
\* among the slots every deeper frame leaves alone.
C35_CalleeLeavesTheCallerAlone ==
  [][(phase = "run" /\ machine.status = "running" /\ machine.frameIndex > 1) =>
       LET frame == currentFrame(machine)
           caller == machine.frames[machine.frameIndex - 1]
       IN /\ frame.basePointer - 1 >= caller.basePointer
          /\ StackBelowUnchanged(frame.basePointer - 1)
          /\ FramesBelowUnchanged(machine.frameIndex - 1)
          /\ (machine'.status = "running" /\ machine'.frameIndex < machine.frameIndex) =>
               /\ machine'.frameIndex = machine.frameIndex - 1
               /\ currentFrame(machine') = caller
               /\ FrameInstructions(machine, caller)[caller.ip] = OpCall]_vars


\* C37: every iteration of the loop of Instructions.String advances i past
\* the byte it examined, a byte that is no defined opcode included, so that
\* the loop ends after at most len(ins) iterations
C37_StringAdvances ==
  [][(phase = "string" /\ phase' = "string") =>
       (turn' > turn /\ Len(out') <= Len(input))]_vars


\* Compile was called on a node of the kind
Compiled(kind) == phase = "emit" /\ turn = 1 /\ out[1].k = kind

\* C38: the operand of every instruction the compiler emits decodes to the
\* value emit was given: for a literal the index addConstant returned, for
\* a let statement and an identifier the index of the symbol, for an array
\* and a hash literal the number of elements and of keys and values, for
\* the jumps of an if expression the offsets of the alternative and of the
\* instruction after it, however large the pool, the number of definitions
\* or the instructions have grown
C38_OperandsDecodeToWhatWasGiven ==
  /\ (Compiled("IntegerLiteral") \/ Compiled("StringLiteral")) =>
       /\ machine.operand = machine.before.constants
       /\ machine.operand = machine.after.constants - 1
  /\ Compiled("LetStatement") =>
       /\ machine.operand = Resolve(Compile(EmitStart, out[1]).symbolTable,
                                    out[1].Name).symbol.Index
       /\ machine.operand = machine.before.numDefinitions
  /\ Compiled("Identifier") =>
       machine.operand = machine.before.resolved.symbol.Index
  /\ Compiled("ArrayLiteral") => machine.operand = Len(out[1].Elements)
  /\ Compiled("HashLiteral") => machine.operand = 2 * Len(out[1].Pairs)
  /\ Compiled("IfExpression") =>
       /\ Len(machine.emitted) = 9
       /\ ReadUint16(machine.emitted, 2) = machine.before.length + 8
       /\ ReadUint16(machine.emitted, 6) = machine.before.length + 9


\* C36: the two jumps the compiler emits for an if expression are forward
\* jumps: the operand of each is greater than the offset of the jump, so
\* that Run, which sets ip to the operand - 1, only ever moves forward
\* within a frame and ends
C36_JumpsAreForward ==
  Compiled("IfExpression") =>
    /\ machine.emitted[2] = OpJumpNotTruthy
    /\ ReadUint16(machine.emitted, 2) > machine.before.length + 1
    /\ machine.emitted[6] = OpJump
    /\ ReadUint16(machine.emitted, 6) > machine.before.length + 5


\* the turn just ended printed a compile error or a run-time error
TurnFailed ==
  /\ phase = "prompt"
  /\ turn >= 1
  /\ Len(out) = turn
  /\ out[turn].kind \in {"Compilation failed: %s", "Executing bytecode failed: %s"}

\* C39: at the prompt after a turn that failed, every name the symbol
\* table of the REPL resolves to a global has a globals slot that an
\* OpSetGlobal has written
C39_ResolvedGlobalsAreSet ==
  TurnFailed =>
    \A name \in DOMAIN symbolTable.store :
      symbolTable.store[name].Scope = GlobalScope =>
        SlotGet(globals, symbolTable.store[name].Index) # Nil

====
